---------------------------- MODULE Spec2Model ----------------------------
(***************************************************************************)
(* Model of the pixel-transform engine of the Image-Effects application:   *)
(* applyEffect -> processEffectWithOptimizedImage -> one of the eight      *)
(* effect algorithms (src/components/ImageEffectsProcessor.tsx, the last   *)
(* revision of the component, lines 1916-2752).  Pixelate is modelled by   *)
(* its per-tile averaging variant                                          *)
(* (src/.github/workflows/components/ImageEffectsProcessor.tsx:117-161,    *)
(* the same loops as pixelateImage in src/components/CanvasArea.tsx).      *)
(*                                                                         *)
(* An image or canvas is a record [w, h, px] where px is the row-major     *)
(* sequence of its pixels and a pixel is the tuple <<R, G, B, A>> of its   *)
(* four bytes: byte 4*(i-1)+c-1 of ImageData.data is px[i][c].  Real       *)
(* numbers are exact rationals n/d carried as integers; Math.round,        *)
(* Math.floor and the Uint8ClampedArray store are modelled by what they    *)
(* compute on the rational.  drawImage of an image at its natural size     *)
(* followed by getImageData is taken to return the image's own bytes.      *)
(*                                                                         *)
(* The component around the engine is modelled in `ui`: selectedEffect and *)
(* effectParams, the timer of debouncedApplyEffect, the timers of          *)
(* handleResize and the processing images of applyEffect that have not     *)
(* loaded yet.                                                             *)
(***************************************************************************)
EXTENDS Integers, Sequences, FiniteSets, TLC

VARIABLES
    originalImage,  \* imageState.originalImage: the decoded source image
    canvas,         \* the <canvas> element: its size and its pixels
    effect,         \* the effect argument of the last applyEffect call
    params,         \* the params argument of the last applyEffect call
    input,          \* the image argument of the last applyEffect call, as passed
    algo,           \* which branch of the dispatch switch the last call ran
    console,        \* what the last call reported with console.error
    status,         \* "idle" | "done" (the call returned) | "hang" (it never returns)
    probe,          \* quantize on its own: its inputs and results
    ui              \* the component: its React state, its timers, its pending loads

vars == <<originalImage, canvas, effect, params, input, algo, console, status, probe, ui>>

engineVars == <<originalImage, canvas, effect, params, input, algo, console, status>>

-----------------------------------------------------------------------------
(* Bounds of the model *)

MaxW == 3

MaxH == 3

\* The largest `levels` quantize is given on its own.
MaxLevels == 17

\* Math.random() returns k / DrawDenominator where every draw is enumerated.
DrawDenominator == 16

-----------------------------------------------------------------------------
(* Arithmetic of the JavaScript runtime on exact rationals n/d, d > 0 *)

Min(a, b) == IF a < b THEN a ELSE b

Max(a, b) == IF a > b THEN a ELSE b

Abs(a) == IF a < 0 THEN -a ELSE a

\* Math.floor(n/d)
Floor(n, d) == n \div d

\* Math.ceil(n/d)
Ceil(n, d) == -((-n) \div d)

\* Math.round(n/d): the nearest integer, a tie going up (toward +infinity)
Round(n, d) == (2 * n + d) \div (2 * d)

\* Math.max(lo, Math.min(hi, v))
Clamp(lo, hi, v) == Max(lo, Min(hi, v))

\* A store of n/d into a Uint8ClampedArray: clamped to [0,255], then rounded
\* to the nearest integer, a tie going to the even one.
ToUint8Clamped(n, d) ==
    IF n <= 0 THEN 0
    ELSE IF n >= 255 * d THEN 255
    ELSE LET f == n \div d
             r2 == 2 * (n - f * d)
         IN  IF r2 < d THEN f
             ELSE IF r2 > d THEN f + 1
             ELSE IF f % 2 = 0 THEN f ELSE f + 1

-----------------------------------------------------------------------------
(* Images *)

R == 1
G == 2
B == 3
A == 4

\* The colours the bounded source images are built from.
Palette ==
    << <<0, 0, 0, 255>>, <<128, 128, 128, 255>>,
       <<255, 255, 255, 255>>, <<200, 64, 10, 128>> >>

PatternPixel(a, b, c, x, y) == Palette[((a * x + b * y + c) % Len(Palette)) + 1]

\* x and y of the i-th pixel (1-based) of a row-major buffer of width w
XOf(i, w) == (i - 1) % w
YOf(i, w) == (i - 1) \div w

\* index = (y * width + x) * 4 in the source; here the 1-based pixel number
Index(x, y, w) == y * w + x + 1

MkImage(w, h, a, b, c) ==
    [w |-> w, h |-> h,
     px |-> [i \in 1..(w * h) |-> PatternPixel(a, b, c, XOf(i, w), YOf(i, w))]]

\* The patterns <<a, b, c>> of the source images: a uniform mid-grey image,
\* a diagonal gradient from black, and columns of alternating colours.
Patterns == {<<0, 0, 1>>, <<1, 1, 0>>, <<1, 0, 2>>}

Images ==
    {MkImage(w, h, t[1], t[2], t[3]) : w \in 0..MaxW, h \in 0..MaxH, t \in Patterns}

\* The images loadImage brings in where images are loaded one after another:
\* up to 2 x 2 pixels, among them the images without width or height.
SmallImages == {MkImage(w, h, 1, 1, 0) : w \in 0..2, h \in 0..2}

\* The canvas before anything was drawn on it (no pixels are modelled for it).
BlankCanvas == [w |-> 0, h |-> 0, px |-> <<>>]

\* ctx.clearRect(0, 0, w, h) / ctx.createImageData(w, h): transparent black
Cleared(w, h) == [w |-> w, h |-> h, px |-> [i \in 1..(w * h) |-> <<0, 0, 0, 0>>]]

-----------------------------------------------------------------------------
(* Pixelate: per-tile averaging *)

\* The values the loop variable of `for (v = 0; v < n; v += pixelSize)` takes.
TileStarts(n, pixelSize) == {k * pixelSize : k \in 0..((n - 1) \div pixelSize)}

\* An inner loop that runs one pixel past its tile.
TileEndInclusive(x, pixelSize, n) == Min(x + pixelSize + 1, n)

\* Math.min(x + pixelSize, image.width): where the inner loop of a tile stops
TileEnd(x, pixelSize, n) == Min(x + pixelSize, n)

\* (px, py) is visited by the inner loops of the tile that starts at (x, y):
\* py from y while py < min(y + pixelSize, height), px likewise.
InTile(px, py, x, y, pixelSize, w, h) ==
    /\ x <= px /\ px < TileEnd(x, pixelSize, w)
    /\ y <= py /\ py < TileEnd(y, pixelSize, h)

RECURSIVE SumTile(_, _, _, _, _, _)
\* r += originalData.data[index + c - 1] over the first k pixels the inner
\* loops of the tile at (x, y) visit; tw is the number of columns they cover
SumTile(image, x, y, tw, k, c) ==
    IF k = 0 THEN 0
    ELSE image.px[Index(x + ((k - 1) % tw), y + ((k - 1) \div tw), image.w)][c]
           + SumTile(image, x, y, tw, k - 1, c)

\* The tile's colour were the quotient truncated instead of rounded.
TileMeanFloor(image, x, y, pixelSize) ==
    LET tw == TileEnd(x, pixelSize, image.w) - x
        count == tw * (TileEnd(y, pixelSize, image.h) - y)
    IN  [c \in 1..4 |-> Floor(SumTile(image, x, y, tw, count, c), count)]

\* r = Math.round(r / count), and likewise g, b, a: the colour of the tile
TileMean(image, x, y, pixelSize) ==
    LET tw == TileEnd(x, pixelSize, image.w) - x
        count == tw * (TileEnd(y, pixelSize, image.h) - y)
    IN  [c \in 1..4 |-> Round(SumTile(image, x, y, tw, count, c), count)]

\* The loops advance by pixelSize: they end only when it is at least 1
\* (the buffer has pixels whenever the algorithm is reached).
PixelateTerminates(image, pixelSize) ==
    pixelSize >= 1 \/ image.w <= 0 \/ image.h <= 0

\* imageData after the tile loops; a pixel no tile writes keeps the
\* transparent black of createImageData.  Tiles are visited in ascending
\* order, so the last one to write a pixel is the one with the largest start.
ApplyPixelateEffect(image, p) ==
    CHOOSE out \in
        {[i \in 1..(image.w * image.h) |->
            LET ts == {t \in DOMAIN mean :
                          InTile(XOf(i, image.w), YOf(i, image.w), t[1], t[2],
                                 p.pixelSize, image.w, image.h)}
            IN  IF ts = {} THEN <<0, 0, 0, 0>>
                ELSE mean[CHOOSE u \in ts :
                              \A v \in ts : v[2] < u[2] \/ (v[2] = u[2] /\ v[1] <= u[1])]] :
         mean \in {[t \in TileStarts(image.w, p.pixelSize)
                            \X TileStarts(image.h, p.pixelSize) |->
                       TileMean(image, t[1], t[2], p.pixelSize)]}} : TRUE

-----------------------------------------------------------------------------
(* Posterize *)

\* levels rounded up instead of down.
PosterizeLevelsCeil(levelsX2) == Max(2, Ceil(levelsX2, 2))

\* const levels = Math.max(2, Math.floor(params.levels)); the parameter is
\* carried in halves (levelsX2 = 2 * params.levels) so that it can be fractional
PosterizeLevels(levelsX2) == Max(2, Floor(levelsX2, 2))

\* Anchors truncated instead of rounded.
QuantLevelsTruncated(levels) == [i \in 1..levels |-> Floor(255 * (i - 1), levels - 1)]

\* quantLevels: Math.round((i / (levels - 1)) * 255) for i = 0 .. levels - 1
QuantLevels(levels) == [i \in 1..levels |-> Round(255 * (i - 1), levels - 1)]

RECURSIVE QuantizeFromLastWins(_, _, _, _, _)
\* The loop with `diff <= minDiff`: of two anchors as near, the later wins.
QuantizeFromLastWins(quantLevels, value, i, nearest, minDiff) ==
    IF i > Len(quantLevels) THEN nearest
    ELSE LET diff == Abs(value - quantLevels[i])
         IN  IF diff <= minDiff
             THEN QuantizeFromLastWins(quantLevels, value, i + 1, quantLevels[i], diff)
             ELSE QuantizeFromLastWins(quantLevels, value, i + 1, nearest, minDiff)

RECURSIVE QuantizeFrom(_, _, _, _, _)
\* the loop of quantize from index i on, with the running nearest and minDiff
QuantizeFrom(quantLevels, value, i, nearest, minDiff) ==
    IF i > Len(quantLevels) THEN nearest
    ELSE LET diff == Abs(value - quantLevels[i])
         IN  IF diff < minDiff
             THEN QuantizeFrom(quantLevels, value, i + 1, quantLevels[i], diff)
             ELSE QuantizeFrom(quantLevels, value, i + 1, nearest, minDiff)

quantize(quantLevels, value) ==
    QuantizeFrom(quantLevels, value, 2, quantLevels[1], Abs(value - quantLevels[1]))

\* data after the in-place loop; data is the copy getImageData returned
ApplyPosterizeEffect(image, p) ==
    CHOOSE data \in
        {[i \in 1..(image.w * image.h) |->
            << quantize(quantLevels, image.px[i][R]),
               quantize(quantLevels, image.px[i][G]),
               quantize(quantLevels, image.px[i][B]),
               image.px[i][A] >>] :
         quantLevels \in {QuantLevels(PosterizeLevels(p.levelsX2))}} : TRUE

-----------------------------------------------------------------------------
(* Blur *)

\* ctx.filter = `blur(${radius}px)` followed by drawImage.  The kernel is the
\* browser's; it is modelled as the mean over the (2 radius + 1)-square
\* window clipped to the buffer, which is the identity at radius 0.
ApplyBlurEffect(image, p) ==
    [i \in 1..(image.w * image.h) |->
        LET x0 == Max(0, XOf(i, image.w) - p.radius)
            y0 == Max(0, YOf(i, image.w) - p.radius)
            tw == Min(image.w, XOf(i, image.w) + p.radius + 1) - x0
            count == tw * (Min(image.h, YOf(i, image.w) + p.radius + 1) - y0)
        IN  IF p.radius <= 0 THEN image.px[i]
            ELSE [c \in 1..4 |-> Round(SumTile(image, x0, y0, tw, count, c), count)]]

-----------------------------------------------------------------------------
(* Noise *)

\* Math.random(): a draw is the rational rn[1] / rn[2] of [0, 1).  A call
\* consumes one draw per pixel; the model repeats a short sequence of draws.
RandomDraws ==
    { << <<0, 1>> >>, << <<7, 8>>, <<1, 2>> >>, << <<1, 4>>, <<0, 1>>, <<15, 16>> >> }

DrawFor(rnd, i) == rnd[((i - 1) % Len(rnd)) + 1]

\* Noise drawn from twice the width: (Math.random() - 0.5) * amount * 4.
NoisyWide(v, amount, rn) ==
    ToUint8Clamped(v * rn[2] + (4 * rn[1] - 2 * rn[2]) * amount, rn[2])

\* The sum without Math.max / Math.min and without the clamped store.
NoisyNoClamp(v, amount, rn) == v + ((2 * rn[1] - rn[2]) * amount) \div rn[2]

\* data[i] = Math.max(0, Math.min(255, data[i] + noise)) with
\* noise = (Math.random() - 0.5) * amount * 2, stored into the clamped array
Noisy(v, amount, rn) ==
    ToUint8Clamped(v * rn[2] + (2 * rn[1] - rn[2]) * amount, rn[2])

ApplyNoiseEffect(image, p, rnd) ==
    [i \in 1..(image.w * image.h) |->
        << Noisy(image.px[i][R], p.amount, DrawFor(rnd, i)),
           Noisy(image.px[i][G], p.amount, DrawFor(rnd, i)),
           Noisy(image.px[i][B], p.amount, DrawFor(rnd, i)),
           image.px[i][A] >>]

-----------------------------------------------------------------------------
(* Emboss *)

\* kernel[ky + 1][kx + 1] / strength
Kernel == << <<-2, -1, 0>>, <<-1, 1, 1>>, <<0, 1, 2>> >>

\* The 3x3 sum of channel c around (x, y), strength factored out.
ConvSum(image, x, y, c) ==
    LET at(kx, ky) == image.px[Index(x + kx, y + ky, image.w)][c] * Kernel[ky + 2][kx + 2]
    IN  at(-1, -1) + at(0, -1) + at(1, -1)
          + at(-1, 0) + at(0, 0) + at(1, 0)
          + at(-1, 1) + at(0, 1) + at(1, 1)

\* r += offset; r = Math.max(0, Math.min(255, Math.round(r))); the strength
\* is carried in tenths (strengthX10 = 10 * params.strength)
EmbossChannel(image, x, y, c, strengthX10) ==
    Clamp(0, 255, Round(strengthX10 * ConvSum(image, x, y, c) + 1280, 10))

\* colorBlend = Math.min(1, strength * 0.3), in hundredths
ColorBlend(strengthX10) == Min(100, 3 * strengthX10)

\* The pixel the convolution loop stores at an interior (x, y).
EmbossPixel(image, x, y, strengthX10) ==
    LET r == EmbossChannel(image, x, y, R, strengthX10)
        g == EmbossChannel(image, x, y, G, strengthX10)
        b == EmbossChannel(image, x, y, B, strengthX10)
        gray == Round(r + g + b, 3)
        cb == ColorBlend(strengthX10)
    IN  << ToUint8Clamped(Round(gray * (100 - cb) + r * cb, 100), 1),
           ToUint8Clamped(Round(gray * (100 - cb) + g * cb, 100), 1),
           ToUint8Clamped(Round(gray * (100 - cb) + b * cb, 100), 1),
           image.px[Index(x, y, image.w)][A] >>

\* An edge test that knows the left column and the top row only.
IsEdgeLeftTop(x, y, w, h) == x = 0 \/ y = 0

\* x === 0 || x === width - 1 || y === 0 || y === height - 1
IsEdge(x, y, w, h) == x = 0 \/ x = w - 1 \/ y = 0 \/ y = h - 1

\* 1 <= x < width - 1 and 1 <= y < height - 1: the range of the convolution loops
IsInterior(x, y, w, h) == 1 <= x /\ x < w - 1 /\ 1 <= y /\ y < h - 1

\* outputData after the convolution loops alone: what the edge-copy loops
\* would store stays as createImageData made it.
ApplyEmbossEffectInteriorOnly(image, p) ==
    [i \in 1..(image.w * image.h) |->
        IF IsInterior(XOf(i, image.w), YOf(i, image.w), image.w, image.h)
        THEN EmbossPixel(image, XOf(i, image.w), YOf(i, image.w), p.strengthX10)
        ELSE <<0, 0, 0, 0>>]

\* outputData after the convolution loops and the edge-copy loops
ApplyEmbossEffect(image, p) ==
    [i \in 1..(image.w * image.h) |->
        LET x == XOf(i, image.w)
            y == YOf(i, image.w)
        IN  IF IsEdge(x, y, image.w, image.h) THEN image.px[i]
            ELSE IF IsInterior(x, y, image.w, image.h)
                 THEN EmbossPixel(image, x, y, p.strengthX10)
                 ELSE <<0, 0, 0, 0>>]

-----------------------------------------------------------------------------
(* Vintage *)

\* data[i] = Math.min(255, c + (tc - c) * (sepia / 100)) stored into the
\* clamped array; tc1000 is the sepia transform of the pixel in thousandths
SepiaBlend(c, tc1000, sepia) ==
    ToUint8Clamped(Min(255 * 100000, c * 100000 + (tc1000 - 1000 * c) * sepia), 100000)

\* data[i] = Math.max(0, Math.min(255, data[i] + grain)) with
\* grain = (Math.random() - 0.5) * params.grain
Grainy(v, grain, rn) ==
    ToUint8Clamped(2 * v * rn[2] + (2 * rn[1] - rn[2]) * grain, 2 * rn[2])

\* One iteration of the sepia-and-grain loop.
SepiaPixel(pixel, p, rn) ==
    LET tr == 393 * pixel[R] + 769 * pixel[G] + 189 * pixel[B]
        tg == 349 * pixel[R] + 686 * pixel[G] + 168 * pixel[B]
        tb == 272 * pixel[R] + 534 * pixel[G] + 131 * pixel[B]
    IN  << Grainy(SepiaBlend(pixel[R], tr, p.sepia), p.grain, rn),
           Grainy(SepiaBlend(pixel[G], tg, p.sepia), p.grain, rn),
           Grainy(SepiaBlend(pixel[B], tb, p.sepia), p.grain, rn),
           pixel[A] >>

RECURSIVE ISqrtIn(_, _, _)
\* the largest k in lo..hi with k * k <= v
ISqrtIn(v, lo, hi) ==
    IF lo >= hi THEN lo
    ELSE LET mid == (lo + hi + 1) \div 2
         IN  IF mid * mid <= v THEN ISqrtIn(v, mid, hi) ELSE ISqrtIn(v, lo, mid - 1)

\* A gradient centred on the top-left corner of the buffer.
GradientOffsetFromOrigin(x, y, w, h) ==
    LET dx == 2 * x + 1
        dy == 2 * y + 1
    IN  Min(100, ISqrtIn((2500 * (dx * dx + dy * dy)) \div (w * w + h * h), 0, 100))

\* The gradient's offset at the centre of pixel (x, y), in hundredths: the
\* distance from (width / 2, height / 2) over maxDist, 0 at the centre and
\* 1 at a corner of the buffer.
GradientOffset(x, y, w, h) ==
    LET dx == 2 * x + 1 - w
        dy == 2 * y + 1 - h
    IN  Min(100, ISqrtIn((10000 * (dx * dx + dy * dy)) \div (w * w + h * h), 0, 100))

\* fillRect with the gradient from rgba(0,0,0,0) to rgba(0,0,0,vignette/100),
\* composited source-over on the pixel; as is the opacity of the black in
\* ten-thousandths.  The canvas keeps colour and alpha as
\*   alpha_out = as + ad (1 - as),  c_out = c ad (1 - as) / alpha_out,
\* and a colour's alpha outside [0, 1] is clamped when the colour is parsed.
Vignette(pixel, x, y, w, h, vignette) ==
    LET as == GradientOffset(x, y, w, h) * Clamp(0, 100, vignette)
        den == 255 * as + pixel[A] * (10000 - as)
    IN  [c \in 1..4 |->
            IF c = A THEN Round(den, 10000)
            ELSE IF den = 0 THEN pixel[c]
            ELSE Round(pixel[c] * pixel[A] * (10000 - as), den)]

\* The canvas after putImageData of the sepia-and-grain loop and the vignette.
ApplyVintageEffect(image, p, rnd) ==
    [i \in 1..(image.w * image.h) |->
        Vignette(SepiaPixel(image.px[i], p, DrawFor(rnd, i)),
                 XOf(i, image.w), YOf(i, image.w), image.w, image.h, p.vignette)]

-----------------------------------------------------------------------------
(* Math.sin and Math.cos, in ten-thousandths *)

\* sin(x) for x in [0, pi/2] given in ten-thousandths: the Taylor polynomial
\* of degree 9 evaluated in fixed point (within 0.0005 of Math.sin)
SinSeries(x) ==
    LET x2 == (x * x) \div 10000
        t3 == ((x * x2) \div 10000) \div 6
        t5 == ((t3 * x2) \div 10000) \div 20
        t7 == ((t5 * x2) \div 10000) \div 42
        t9 == ((t7 * x2) \div 10000) \div 72
    IN  Min(10000, x - t3 + t5 - t7 + t9)

\* Math.sin(Math.PI * n / d) for n >= 0, d > 0
SinPiPos(n, d) ==
    LET u == n % (2 * d)
        v == IF u > d THEN u - d ELSE u
        q == IF 2 * v > d THEN d - v ELSE v
        s == SinSeries((31416 * q) \div d)
    IN  IF u > d THEN -s ELSE s

\* Math.sin(Math.PI * n / d), d > 0
SinPi(n, d) == IF n < 0 THEN -SinPiPos(-n, d) ELSE SinPiPos(n, d)

\* Math.cos(Math.PI * n / d), d > 0
CosPi(n, d) == SinPi(2 * n + d, 2 * d)

-----------------------------------------------------------------------------
(* Glass refraction *)

\* combinedWave at (x, y), in ten-thousandths, with freqFactor = frequency * 0.1
CombinedWave(x, y, w, h, frequency) ==
    LET wave1 == Round(SinPi(x * frequency, 10 * w) * CosPi(y * frequency, 10 * h), 10000)
        wave2 == Round(SinPi(13 * y * frequency, 100 * h)
                         * CosPi(7 * x * frequency, 100 * w), 10000)
        wave3 == SinPi(8 * frequency * (x * h + y * w), 100 * w * h)
    IN  Round(10 * wave1 + 7 * wave2 + 5 * wave3, 22)

\* cosDir + 0.3 * (-sinDir) and sinDir + 0.3 * cosDir, in ten-thousandths
DirectionX(direction) == Round(10 * CosPi(direction, 180) - 3 * SinPi(direction, 180), 10)

DirectionY(direction) == Round(10 * SinPi(direction, 180) + 3 * CosPi(direction, 180), 10)

\* A displacement that ignores intensityFactor: ampFactor = amplitude.
SourceCoordFullAmplitude(x, wave, dir, p) ==
    Round(x * 1000000 + Round(wave * dir, 10000) * p.amplitude * 100, 1000000)

\* Math.round(x + distortion + perpDistortion), where the two distortions sum
\* to combinedWave * ampFactor * dir and ampFactor = amplitude * intensity / 100
SourceCoord(x, wave, dir, p) ==
    Round(x * 1000000 + Round(wave * dir, 10000) * p.amplitude * p.intensity, 1000000)

\* aberrationOffset = Math.floor(ampFactor * 0.5)
AberrationOffset(p) == Floor(p.amplitude * p.intensity, 200)

\* A brightness variation ten times as strong: sin(...) * 1.0 * intensityFactor.
BrightenStrong(c, wave, p) ==
    Clamp(0, 255, Round(c * (100000 + Round(SinPi(wave, 10000) * p.intensity, 10)), 100000))

\* Math.max(0, Math.min(255, Math.round(c * brightnessFactor))) with
\* brightnessFactor = 1 + Math.sin(combinedWave * Math.PI) * 0.1 * intensityFactor
Brighten(c, wave, p) ==
    Clamp(0, 255, Round(c * (100000 + Round(SinPi(wave, 10000) * p.intensity, 100)), 100000))

\* originalData.data[(y * width + x) * 4 + c - 1].  A read past either end of
\* the array gives undefined, which the arithmetic turns into NaN and the
\* store into the Uint8ClampedArray turns into 0.
DataAt(image, x, y, c) ==
    IF y * image.w + x >= 0 /\ y * image.w + x < image.w * image.h
    THEN image.px[Index(x, y, image.w)][c]
    ELSE 0

\* An aberration that does not look at intensityFactor.
AberrationAtAnyIntensity(p) == AberrationOffset(p) > 0

\* `if (intensityFactor > 0.3)` and `if (aberrationOffset > 0)`
Aberration(p) == p.intensity > 30 /\ AberrationOffset(p) > 0

\* A red sample column that is not clamped.
RedXUnclamped(image, clampedX, p) == clampedX + AberrationOffset(p)

\* redX = Math.max(0, Math.min(width - 1, clampedX + aberrationOffset))
RedX(image, clampedX, p) == Clamp(0, image.w - 1, clampedX + AberrationOffset(p))

\* blueX = Math.max(0, Math.min(width - 1, clampedX - aberrationOffset))
BlueX(image, clampedX, p) == Clamp(0, image.w - 1, clampedX - AberrationOffset(p))

\* One iteration of the warp loop, given combinedWave and the clamped source
\* coordinates: the pixel stored in outputData.
GlassSample(image, wave, clampedX, clampedY, p) ==
    LET r == IF Aberration(p)
             THEN DataAt(image, RedX(image, clampedX, p), clampedY, R)
             ELSE DataAt(image, clampedX, clampedY, R)
        b == IF Aberration(p)
             THEN DataAt(image, BlueX(image, clampedX, p), clampedY, B)
             ELSE DataAt(image, clampedX, clampedY, B)
    IN  << Brighten(r, wave, p),
           Brighten(DataAt(image, clampedX, clampedY, G), wave, p),
           Brighten(b, wave, p),
           DataAt(image, clampedX, clampedY, A) >>

\* sourceX and sourceY at (x, y), before they are clamped
SourceX(image, x, y, p) ==
    SourceCoord(x, CombinedWave(x, y, image.w, image.h, p.frequency),
                DirectionX(p.direction), p)

SourceY(image, x, y, p) ==
    SourceCoord(y, CombinedWave(x, y, image.w, image.h, p.frequency),
                DirectionY(p.direction), p)

\* The pixel the warp loop stores at (x, y) of outputData.
GlassPixel(image, x, y, p) ==
    CHOOSE out \in
        {GlassSample(image, wave,
                     Clamp(0, image.w - 1, SourceCoord(x, wave, DirectionX(p.direction), p)),
                     Clamp(0, image.h - 1, SourceCoord(y, wave, DirectionY(p.direction), p)),
                     p) :
            wave \in {CombinedWave(x, y, image.w, image.h, p.frequency)}} : TRUE

\* drawImage of the blurred copy at globalAlpha 0.15, composited source-over
\* on the pixel dst: with as = 0.15 * alpha(blurred) and ad = alpha(dst),
\*   alpha_out = as + ad (1 - as),  c_out = (cs as + cd ad (1 - as)) / alpha_out
\* (alphas in 1/255, 0.15 = 3/20).
Soften(dst, blurred) ==
    LET den == 3 * blurred[A] * 255 + dst[A] * (5100 - 3 * blurred[A])
    IN  [c \in 1..4 |->
            IF c = A THEN Round(den, 5100)
            ELSE IF den = 0 THEN dst[c]
            ELSE Round(blurred[c] * 3 * blurred[A] * 255
                         + dst[c] * dst[A] * (5100 - 3 * blurred[A]), den)]

\* The softening pass over the warped canvas (its blur is the browser's: see
\* ApplyBlurEffect).
SoftenAll(warped) ==
    CHOOSE out \in
        {[i \in 1..(warped.w * warped.h) |-> Soften(warped.px[i], blurred[i])] :
            blurred \in {ApplyBlurEffect(warped, [radius |-> 1])}} : TRUE

\* The canvas after the warp loop and, above intensity 50, the softening pass.
ApplyGlassRefractionEffect(image, p) ==
    CHOOSE out \in
        {IF p.intensity > 50 THEN SoftenAll([image EXCEPT !.px = warped]) ELSE warped :
            warped \in {[i \in 1..(image.w * image.h) |->
                            GlassPixel(image, XOf(i, image.w), YOf(i, image.w), p)]}} : TRUE

-----------------------------------------------------------------------------
(* Halftone *)

\* spacing, in tenths of a pixel
Spacing(dotRadius) ==
    IF dotRadius <= 2 THEN 18 * dotRadius
    ELSE IF dotRadius <= 5 THEN 20 * dotRadius
    ELSE 25 * dotRadius

\* The loops `for (v = spacing / 2; v < n; v += spacing)` end only when
\* spacing is positive.
HalftoneTerminates(image, dotRadius) ==
    Spacing(dotRadius) > 0 \/ image.w <= 0 \/ image.h <= 0

\* The values the loop variable takes, in twentieths of a pixel:
\* spacing / 2, then steps of spacing, while below n.
LatticeCoords(n, dotRadius) ==
    {Spacing(dotRadius) + k * 2 * Spacing(dotRadius) :
        k \in 0..((20 * n - Spacing(dotRadius) - 1) \div (2 * Spacing(dotRadius)))}

\* sampleX = Math.floor(Math.max(0, Math.min(x, image.width - 1)))
SampleCoord(x20, n) == Floor(Max(0, Min(x20, 20 * (n - 1))), 20)

\* normalizedBrightness * 765, from the pixel sampled at the lattice point
NormalizedBrightness(pixel, colorMode) ==
    IF colorMode THEN pixel[R] + pixel[G] + pixel[B]
    ELSE 765 - (pixel[R] + pixel[G] + pixel[B])

\* dotSize * 7650 after the small-radius boosts
DotSize(nb, dotRadius) ==
    IF dotRadius <= 2
    THEN Max(12 * nb * dotRadius, IF 10 * nb > 765 THEN 2295 ELSE 0)
    ELSE IF dotRadius <= 3
    THEN Max(10 * nb * dotRadius, IF 10 * nb > 765 THEN 3060 ELSE 0)
    ELSE 10 * nb * dotRadius

\* A threshold of 0.3 for every radius.
MinDotThresholdLarge(dotRadius) == 2295

\* minDotThreshold * 7650
MinDotThreshold(dotRadius) == IF dotRadius <= 2 THEN 765 ELSE 2295

\* if (dotSize > minDotThreshold): a dot is drawn at the lattice point
DotDrawn(pixel, p) ==
    DotSize(NormalizedBrightness(pixel, p.colorMode), p.dotRadius)
        > MinDotThreshold(p.dotRadius)

\* The pixel sampled at the lattice point (x20, y20).
SampleAt(image, x20, y20) ==
    image.px[Index(SampleCoord(x20, image.w), SampleCoord(y20, image.h), image.w)]

\* The centre of pixel (px, py) lies in the shape drawn at (x20, y20) after
\* translate and rotate(angle); size20 is dotSize in twentieths of a pixel.
\* (The browser's rasteriser decides the coverage of a pixel; the model
\* takes a pixel as painted when its centre is inside the path.)
Covers(px, py, x20, y20, size20, p) ==
    LET dx == 20 * px + 10 - x20
        dy == 20 * py + 10 - y20
        lx == Abs(Round(dx * CosPi(p.angle, 180) + dy * SinPi(p.angle, 180), 10000))
        ly == Abs(Round(dy * CosPi(p.angle, 180) - dx * SinPi(p.angle, 180), 10000))
        rectSize == IF p.dotRadius <= 2 THEN Max(size20, 10) ELSE size20
    IN  CASE p.shapeType = "circle"    -> dx * dx + dy * dy <= size20 * size20
          [] p.shapeType = "diamond"   -> lx + ly <= size20
          [] p.shapeType = "rectangle" -> lx <= rectSize /\ ly <= rectSize
          [] OTHER                     -> FALSE

\* The canvas after fillRect with white and the lattice loops: a pixel shows
\* the fill colour of the last dot drawn over it.
ApplyHalftoneEffect(image, p) ==
    CHOOSE out \in
        {[i \in 1..(image.w * image.h) |->
            LET over == {d \in DOMAIN size20 :
                            Covers(XOf(i, image.w), YOf(i, image.w),
                                   d[1], d[2], size20[d], p)}
            IN  IF over = {} THEN <<255, 255, 255, 255>>
                ELSE LET last == CHOOSE d \in over :
                                     \A e \in over :
                                         e[2] < d[2] \/ (e[2] = d[2] /\ e[1] <= d[1])
                         s == SampleAt(image, last[1], last[2])
                     IN  IF p.colorMode THEN <<s[R], s[G], s[B], 255>>
                         ELSE <<0, 0, 0, 255>>] :
         size20 \in
            {[d \in {e \in LatticeCoords(image.w, p.dotRadius)
                              \X LatticeCoords(image.h, p.dotRadius) :
                        DotDrawn(SampleAt(image, e[1], e[2]), p)} |->
                (2 * DotSize(NormalizedBrightness(SampleAt(image, d[1], d[2]),
                                                  p.colorMode), p.dotRadius)) \div 765]}} :
        TRUE

-----------------------------------------------------------------------------
(* The engine: applyEffect and its dispatch *)

EffectKinds ==
    {"pixelate", "halftone", "blur", "noise", "posterize",
     "glass-refraction", "emboss", "vintage"}

\* A value of `effect` outside the EffectType union, as an unchecked cast or
\* a stale caller can pass it.
UnknownKinds == {"sharpen"}

\* An effect whose loop writes into the source image's own buffer.
EffectResultInPlace(image, data, ran) ==
    [image |-> [image EXCEPT !.px = data], out |-> data, algo |-> ran]

\* What a call leaves in the image it was given and what it puts on the
\* canvas.  The in-place loops of Noise, Posterize and Vintage write into
\* `data`, the copy getImageData returned, never into the image.
EffectResult(image, data, ran) == [image |-> image, out |-> data, algo |-> ran]

\* A clearRect that leaves a canvas of the same size as it is.
ClearRectSkipped(ctx, w, h) == IF ctx.w = w /\ ctx.h = h THEN ctx ELSE Cleared(w, h)

\* canvas.width = width; canvas.height = height; and, in the onload handler
\* of the processing image, ctx.clearRect(0, 0, canvas.width, canvas.height)
ClearRect(ctx, w, h) == Cleared(w, h)

\* The canvas's default compositing of the pixel src on the pixel dst
\* (source-over), alphas in 1/255:
\*   alpha_out = as + ad (1 - as),  c_out = (cs as + cd ad (1 - as)) / alpha_out
SourceOver(src, dst) ==
    LET den == 255 * src[A] + dst[A] * (255 - src[A])
    IN  [c \in 1..4 |->
            IF c = A THEN Round(den, 255)
            ELSE IF den = 0 THEN 0
            ELSE Round(src[c] * src[A] * 255 + dst[c] * dst[A] * (255 - src[A]), den)]

\* A drawImage that draws nothing.
DrawImageSkipped(ctx, image) == ctx.px

\* ctx.drawImage(image, 0, 0): the pixels of the canvas afterwards
DrawImage(ctx, image) ==
    [i \in 1..(image.w * image.h) |-> SourceOver(image.px[i], ctx.px[i])]

\* The image as getImageData reads it back after ctx.drawImage(image, 0, 0).
Drawn(ctx, image) ==
    CHOOSE img \in {[image EXCEPT !.px = DrawImage(ctx, image)]} : TRUE

\* The call never returns: a loop of the selected algorithm does not end.
Diverges(image, eff, p) ==
    \/ eff = "pixelate" /\ ~PixelateTerminates(image, p.pixelSize)
    \/ eff = "halftone" /\ ~HalftoneTerminates(image, p.dotRadius)

\* the switch of processEffectWithOptimizedImage
\* Pixelate, GlassRefraction and Emboss read the image from a canvas of their
\* own and replace the pixels of ctx with putImageData; Halftone paints ctx
\* white first; the others draw the image on ctx and read it back from there.
ProcessEffectWithOptimizedImage(ctx, image, eff, p, rnd) ==
    CASE eff = "pixelate"  -> EffectResult(image, ApplyPixelateEffect(image, p), eff)
      [] eff = "halftone"  -> EffectResult(image, ApplyHalftoneEffect(image, p), eff)
      [] eff = "blur"      ->
            EffectResult(image,
                         DrawImage(ctx, [image EXCEPT !.px = ApplyBlurEffect(image, p)]),
                         eff)
      [] eff = "noise"     ->
            EffectResult(image, ApplyNoiseEffect(Drawn(ctx, image), p, rnd), eff)
      [] eff = "posterize" ->
            EffectResult(image, ApplyPosterizeEffect(Drawn(ctx, image), p), eff)
      [] eff = "glass-refraction"
                           -> EffectResult(image, ApplyGlassRefractionEffect(image, p), eff)
      [] eff = "emboss"    -> EffectResult(image, ApplyEmbossEffect(image, p), eff)
      [] eff = "vintage"   ->
            EffectResult(image, ApplyVintageEffect(Drawn(ctx, image), p, rnd), eff)
      [] OTHER             -> EffectResult(image, DrawImage(ctx, image), "passthrough")

\* A guard that looks at the width only.
InvalidWidth(image) == image.w <= 0

\* `if (originalWidth <= 0 || originalHeight <= 0) return` of applyEffect
InvalidDimensions(image) == image.w <= 0 \/ image.h <= 0

\* applyEffect(image, effect, params) together with the onload handler of
\* its processing image, which runs the dispatch.
ApplyEffect(eff, p, rnd) ==
    /\ status # "hang"
    /\ effect' = eff
    /\ params' = p
    /\ input' = originalImage
    /\ IF InvalidDimensions(originalImage)
       THEN /\ console' = "InvalidDimensions"
            /\ algo' = "none"
            /\ status' = "done"
            /\ UNCHANGED <<originalImage, canvas>>
       ELSE IF Diverges(originalImage, eff, p)
       THEN /\ console' = "none"
            /\ algo' = eff
            /\ status' = "hang"
            /\ canvas' = ClearRect(canvas, originalImage.w, originalImage.h)
            /\ UNCHANGED originalImage
       ELSE \E res \in {ProcessEffectWithOptimizedImage(
                             ClearRect(canvas, originalImage.w, originalImage.h),
                             originalImage, eff, p, rnd)} :
                /\ console' = "none"
                /\ algo' = res.algo
                /\ status' = "done"
                /\ canvas' = [w |-> originalImage.w, h |-> originalImage.h,
                              px |-> res.out]
                /\ originalImage' = res.image
    /\ UNCHANGED <<probe, ui>>

-----------------------------------------------------------------------------
(* The parameter records the model applies *)

NoRandom == << <<0, 1>> >>

PixelateParams == {[pixelSize |-> n] : n \in {0, 1, 2, 3, 5, 121}}

PosterizeParams == {[levelsX2 |-> n] : n \in {-2, 2, 3, 4, 5, 6, 32, 34}}

HalftoneParams ==
    { [shapeType |-> "circle", dotRadius |-> 1, angle |-> 45, colorMode |-> FALSE],
      [shapeType |-> "circle", dotRadius |-> 3, angle |-> 0, colorMode |-> TRUE],
      [shapeType |-> "diamond", dotRadius |-> 2, angle |-> 0, colorMode |-> FALSE],
      [shapeType |-> "diamond", dotRadius |-> 20, angle |-> 90, colorMode |-> TRUE],
      [shapeType |-> "circle", dotRadius |-> 8, angle |-> 45, colorMode |-> FALSE],
      [shapeType |-> "rectangle", dotRadius |-> 1, angle |-> 360, colorMode |-> TRUE],
      [shapeType |-> "circle", dotRadius |-> 0, angle |-> 45, colorMode |-> FALSE],
      [shapeType |-> "rectangle", dotRadius |-> 21, angle |-> 361, colorMode |-> FALSE] }

BlurParams == {[radius |-> n] : n \in {0, 1, 51}}

NoiseParams == {[amount |-> n] : n \in {0, 25, 100, 101}}

GlassRefractionParams ==
    { [intensity |-> 0, frequency |-> 8, amplitude |-> 10, direction |-> 0],
      [intensity |-> 20, frequency |-> 1, amplitude |-> 50, direction |-> 90],
      [intensity |-> 50, frequency |-> 8, amplitude |-> 10, direction |-> 0],
      [intensity |-> 40, frequency |-> 20, amplitude |-> 1, direction |-> 360],
      [intensity |-> 100, frequency |-> 8, amplitude |-> 1, direction |-> 45],
      [intensity |-> 100, frequency |-> 20, amplitude |-> 50, direction |-> 200],
      [intensity |-> 101, frequency |-> 21, amplitude |-> 51, direction |-> 361] }

EmbossParams == {[strengthX10 |-> n] : n \in {0, 1, 10, 30, 31}}

VintageParams ==
    { [sepia |-> 30, grain |-> 20, vignette |-> 40],
      [sepia |-> 0, grain |-> 0, vignette |-> 0],
      [sepia |-> 100, grain |-> 50, vignette |-> 100],
      [sepia |-> 101, grain |-> 51, vignette |-> 101] }

UnknownParams == {[amount |-> 0]}

\* The declared ranges of the parameter table (the sliders of the control panel).
ParamsInRange(eff, p) ==
    CASE eff = "pixelate"  -> p.pixelSize >= 1 /\ p.pixelSize <= 120
      [] eff = "halftone"  -> /\ p.dotRadius >= 1 /\ p.dotRadius <= 20
                              /\ p.angle >= 0 /\ p.angle <= 360
      [] eff = "blur"      -> p.radius >= 0 /\ p.radius <= 50
      [] eff = "noise"     -> p.amount >= 0 /\ p.amount <= 100
      [] eff = "posterize" -> p.levelsX2 >= 4 /\ p.levelsX2 <= 32 /\ p.levelsX2 % 2 = 0
      [] eff = "glass-refraction"
                           -> /\ p.intensity >= 0 /\ p.intensity <= 100
                              /\ p.frequency >= 1 /\ p.frequency <= 20
                              /\ p.amplitude >= 1 /\ p.amplitude <= 50
                              /\ p.direction >= 0 /\ p.direction <= 360
      [] eff = "emboss"    -> p.strengthX10 >= 1 /\ p.strengthX10 <= 30
      [] eff = "vintage"   -> /\ p.sepia >= 0 /\ p.sepia <= 100
                              /\ p.grain >= 0 /\ p.grain <= 50
                              /\ p.vignette >= 0 /\ p.vignette <= 100
      [] OTHER             -> TRUE

\* The initial effectParams of the component.
DefaultParams ==
    [e \in EffectKinds \cup UnknownKinds |->
        CASE e = "pixelate"  -> [pixelSize |-> 10]
          [] e = "halftone"  -> [shapeType |-> "circle", dotRadius |-> 8,
                                 angle |-> 45, colorMode |-> FALSE]
          [] e = "blur"      -> [radius |-> 5]
          [] e = "noise"     -> [amount |-> 25]
          [] e = "posterize" -> [levelsX2 |-> 8]
          [] e = "glass-refraction"
                             -> [intensity |-> 50, frequency |-> 8,
                                 amplitude |-> 10, direction |-> 0]
          [] e = "emboss"    -> [strengthX10 |-> 10]
          [] e = "vintage"   -> [sepia |-> 30, grain |-> 20, vignette |-> 40]
          [] OTHER           -> [amount |-> 0]]

-----------------------------------------------------------------------------
(* The specification of the engine *)

NoImage == [w |-> 0, h |-> 0, px |-> <<>>]

NoParams == [none |-> 0]

NoProbe == [stage |-> "off"]

NoUi == [stage |-> "off"]

InitWith(images) ==
    /\ originalImage \in images
    /\ canvas = BlankCanvas
    /\ effect = "none"
    /\ params = NoParams
    /\ input = NoImage
    /\ algo = "none"
    /\ console = "none"
    /\ status = "idle"
    /\ probe = NoProbe
    /\ ui = NoUi

Init == InitWith(Images)

ApplyPixelate == \E p \in PixelateParams : ApplyEffect("pixelate", p, NoRandom)

ApplyHalftone == \E p \in HalftoneParams : ApplyEffect("halftone", p, NoRandom)

ApplyBlur == \E p \in BlurParams : ApplyEffect("blur", p, NoRandom)

ApplyNoise ==
    \E p \in NoiseParams : \E rnd \in RandomDraws : ApplyEffect("noise", p, rnd)

ApplyPosterize == \E p \in PosterizeParams : ApplyEffect("posterize", p, NoRandom)

ApplyGlassRefraction ==
    \E p \in GlassRefractionParams : ApplyEffect("glass-refraction", p, NoRandom)

ApplyEmboss == \E p \in EmbossParams : ApplyEffect("emboss", p, NoRandom)

ApplyVintage ==
    \E p \in VintageParams : \E rnd \in RandomDraws : ApplyEffect("vintage", p, rnd)

ApplyUnknown ==
    \E k \in UnknownKinds : \E p \in UnknownParams : ApplyEffect(k, p, NoRandom)

Next ==
    \/ ApplyPixelate
    \/ ApplyHalftone
    \/ ApplyBlur
    \/ ApplyNoise
    \/ ApplyPosterize
    \/ ApplyGlassRefraction
    \/ ApplyEmboss
    \/ ApplyVintage
    \/ ApplyUnknown

Spec == Init /\ [][Next]_vars

-----------------------------------------------------------------------------
(* Pixelate alone, on the source images *)

SpecPixelate == Init /\ [][ApplyPixelate]_vars

-----------------------------------------------------------------------------
(* Images loaded one after another, each effect applied with its initial    *)
(* parameters                                                               *)

\* img.onload of loadImage: setImageState({originalImage: img, ...}); the
\* canvas keeps what it shows until the next applyEffect.
LoadImage ==
    \E img \in SmallImages :
        /\ status # "hang"
        /\ originalImage' = img
        /\ status' = "idle"
        /\ UNCHANGED <<canvas, effect, params, input, algo, console, probe, ui>>

ApplyDefault ==
    \E e \in EffectKinds \cup UnknownKinds :
        \E rnd \in {<< <<1, 4>>, <<3, 4>> >>} : ApplyEffect(e, DefaultParams[e], rnd)

InitReload == InitWith(SmallImages)

NextReload ==
    \/ LoadImage
    \/ ApplyDefault

SpecReload == InitReload /\ [][NextReload]_vars

-----------------------------------------------------------------------------
(* Posterize and its quantize function on every byte value *)

\* The images Posterize is applied to here: the 4 x 4 mid-grey buffer and
\* small images of the other colours.
PosterizeImages ==
    {MkImage(4, 4, 0, 0, 1), MkImage(2, 2, 1, 1, 0), MkImage(3, 1, 1, 0, 2),
     MkImage(1, 1, 0, 0, 3)}

\* params.levels as it is passed, in halves: -1, -0.5, ... MaxLevels
LevelInputs == (-2)..(2 * MaxLevels)

InitProbe ==
    /\ originalImage = NoImage
    /\ canvas = BlankCanvas
    /\ effect = "none"
    /\ params = NoParams
    /\ input = NoImage
    /\ algo = "none"
    /\ console = "none"
    /\ status = "idle"
    /\ probe \in [stage : {"in"}, levelsX2 : LevelInputs, value : 0..255]
    /\ ui = NoUi

InitPosterize == InitWith(PosterizeImages) \/ InitProbe

\* const levels = ...; the loop that fills quantLevels
BuildLevels ==
    /\ probe.stage = "in"
    /\ probe' = [stage |-> "built", levelsX2 |-> probe.levelsX2, value |-> probe.value,
                 levels |-> PosterizeLevels(probe.levelsX2),
                 quantLevels |-> QuantLevels(PosterizeLevels(probe.levelsX2))]
    /\ UNCHANGED <<engineVars, ui>>

\* data[i] = quantize(data[i])
QuantizeOnce ==
    /\ probe.stage = "built"
    /\ probe' = [stage |-> "once", levelsX2 |-> probe.levelsX2, value |-> probe.value,
                 levels |-> probe.levels, quantLevels |-> probe.quantLevels,
                 q1 |-> quantize(probe.quantLevels, probe.value)]
    /\ UNCHANGED <<engineVars, ui>>

\* quantize applied to its own result
QuantizeAgain ==
    /\ probe.stage = "once"
    /\ probe' = [stage |-> "twice", levelsX2 |-> probe.levelsX2, value |-> probe.value,
                 levels |-> probe.levels, quantLevels |-> probe.quantLevels,
                 q1 |-> probe.q1, q2 |-> quantize(probe.quantLevels, probe.q1)]
    /\ UNCHANGED <<engineVars, ui>>

PosterizeLevelParams == {[levelsX2 |-> n] : n \in LevelInputs}

ApplyPosterizeLevels ==
    /\ probe.stage = "off"
    /\ \E p \in PosterizeLevelParams : ApplyEffect("posterize", p, NoRandom)

NextPosterize ==
    \/ BuildLevels
    \/ QuantizeOnce
    \/ QuantizeAgain
    \/ ApplyPosterizeLevels

SpecPosterize == InitPosterize /\ [][NextPosterize]_vars

-----------------------------------------------------------------------------
(* Noise and its per-channel sum on every byte value and every draw *)

NoiseImages == {MkImage(2, 2, 1, 1, 0), MkImage(3, 2, 1, 0, 2), MkImage(1, 3, 1, 1, 2)}

\* The values of params.amount the sum is given on its own.
NoiseAmounts == {0, 1, 2, 25, 100}

AllDraws == {<<k, DrawDenominator>> : k \in 0..(DrawDenominator - 1)}

InitNoiseProbe ==
    /\ originalImage = NoImage
    /\ canvas = BlankCanvas
    /\ effect = "none"
    /\ params = NoParams
    /\ input = NoImage
    /\ algo = "none"
    /\ console = "none"
    /\ status = "idle"
    /\ probe \in [stage : {"noise"}, value : 0..255, amount : NoiseAmounts, rn : AllDraws]
    /\ ui = NoUi

InitNoise == InitWith(NoiseImages) \/ InitNoiseProbe

\* data[i] = Math.max(0, Math.min(255, data[i] + noise))
NoiseOnce ==
    /\ probe.stage = "noise"
    /\ probe' = [stage |-> "noised", value |-> probe.value, amount |-> probe.amount,
                 rn |-> probe.rn,
                 out |-> Noisy(probe.value, probe.amount, probe.rn)]
    /\ UNCHANGED <<engineVars, ui>>

ApplyNoiseOnImages ==
    /\ probe.stage = "off"
    /\ ApplyNoise

NextNoise ==
    \/ NoiseOnce
    \/ ApplyNoiseOnImages

SpecNoise == InitNoise /\ [][NextNoise]_vars

-----------------------------------------------------------------------------
(* Emboss alone, on images large enough to have interior pixels *)

EmbossImages ==
    {MkImage(w, h, t[1], t[2], t[3]) :
        w \in 1..(MaxW + 1), h \in 1..(MaxH + 1), t \in Patterns}

SpecEmboss == InitWith(EmbossImages) /\ [][ApplyEmboss]_vars

-----------------------------------------------------------------------------
(* Glass refraction alone, at and around intensity 0 and amplitude 0 *)

GlassImages ==
    {MkImage(w, h, t[1], t[2], t[3]) :
        w \in 1..MaxW, h \in 1..MaxH, t \in {<<1, 1, 0>>, <<1, 0, 2>>}}

GlassLimitParams ==
    [intensity : {0, 50, 100}, frequency : {8, 20},
     amplitude : {0, 50}, direction : {0, 200}]

ApplyGlassAtLimits ==
    \E p \in GlassLimitParams : ApplyEffect("glass-refraction", p, NoRandom)

SpecGlass == InitWith(GlassImages) /\ [][ApplyGlassAtLimits]_vars

-----------------------------------------------------------------------------
(* Glass refraction alone, around the thresholds of its colour aberration *)

GlassAberrationParams ==
    [intensity : {30, 31, 50, 100}, frequency : {8},
     amplitude : {1, 6, 50}, direction : {0, 90}]

ApplyGlassAberration ==
    \E p \in GlassAberrationParams : ApplyEffect("glass-refraction", p, NoRandom)

SpecGlassAberration == InitWith(GlassImages) /\ [][ApplyGlassAberration]_vars

-----------------------------------------------------------------------------
(* Halftone alone, and its dot test on every brightness and every radius *)

\* Uniform black, grey and white images and a gradient.
HalftoneImages ==
    {MkImage(w, MaxH, t[1], t[2], t[3]) :
        w \in 2..MaxW, t \in {<<0, 0, 0>>, <<0, 0, 1>>, <<0, 0, 2>>, <<1, 1, 0>>}}

HalftoneDotParams ==
    [shapeType : {"circle", "rectangle"}, dotRadius : {1, 2, 3, 6, 20},
     angle : {0, 45}, colorMode : BOOLEAN]

\* An opaque pixel with r + g + b = sum.
SamplePixel(sum) == <<sum \div 3, (sum + 1) \div 3, (sum + 2) \div 3, 255>>

\* The radii of the Dot Radius slider.
DotRadii == 1..20

InitHalftoneProbe ==
    /\ originalImage = NoImage
    /\ canvas = BlankCanvas
    /\ effect = "none"
    /\ params = NoParams
    /\ input = NoImage
    /\ algo = "none"
    /\ console = "none"
    /\ status = "idle"
    /\ probe \in [stage : {"sample"}, sum : 0..765, dotRadius : DotRadii,
                   colorMode : BOOLEAN]
    /\ ui = NoUi

InitHalftone == InitWith(HalftoneImages) \/ InitHalftoneProbe

\* One lattice point: brightness, dotSize and `if (dotSize > minDotThreshold)`
DotOnce ==
    /\ probe.stage = "sample"
    /\ probe' = [stage |-> "dot", sum |-> probe.sum, dotRadius |-> probe.dotRadius,
                 colorMode |-> probe.colorMode,
                 drawn |-> DotDrawn(SamplePixel(probe.sum),
                                    [shapeType |-> "circle", dotRadius |-> probe.dotRadius,
                                     angle |-> 45, colorMode |-> probe.colorMode])]
    /\ UNCHANGED <<engineVars, ui>>

ApplyHalftoneDots ==
    /\ probe.stage = "off"
    /\ \E p \in HalftoneDotParams : ApplyEffect("halftone", p, NoRandom)

NextHalftone ==
    \/ DotOnce
    \/ ApplyHalftoneDots

SpecHalftone == InitHalftone /\ [][NextHalftone]_vars

-----------------------------------------------------------------------------
(* The loops of Emboss, GlassRefraction and Pixelate one row or one tile at *)
(* a time, in any order                                                     *)

\* The calls whose loops are taken apart: the effect, its image, its params.
WorkItems ==
    {[kind |-> "emboss", image |-> MkImage(4, 4, t[1], t[2], t[3]),
      params |-> [strengthX10 |-> n]] :
        t \in {<<1, 1, 0>>, <<1, 0, 2>>}, n \in {10, 30}}
    \cup
    {[kind |-> "glass-refraction", image |-> MkImage(3, 3, t[1], t[2], t[3]),
      params |-> [intensity |-> 50, frequency |-> 8, amplitude |-> a, direction |-> 90]] :
        t \in {<<1, 1, 0>>, <<1, 0, 2>>}, a \in {6, 50}}
    \cup
    {[kind |-> "pixelate", image |-> MkImage(3, 3, t[1], t[2], t[3]),
      params |-> [pixelSize |-> n]] :
        t \in {<<1, 1, 0>>, <<1, 0, 2>>}, n \in {1, 2, 5}}

\* The iterations of the outer loops: <<"conv", 0, y>> and <<"edge", 0, y>>
\* for the two passes of Emboss, <<"warp", 0, y>> for GlassRefraction and
\* <<"tile", x, y>> for Pixelate.
WorkUnits(kind, image, p) ==
    CASE kind = "emboss" ->
            {<<"conv", 0, y>> : y \in 1..(image.h - 2)}
                \cup {<<"edge", 0, y>> : y \in 0..(image.h - 1)}
      [] kind = "glass-refraction" -> {<<"warp", 0, y>> : y \in 0..(image.h - 1)}
      [] kind = "pixelate" ->
            {<<"tile", t[1], t[2]>> :
                t \in TileStarts(image.w, p.pixelSize) \X TileStarts(image.h, p.pixelSize)}

\* The iteration u stores the output pixel (x, y).
Writes(u, x, y, w, h, p) ==
    CASE u[1] = "conv" -> y = u[3] /\ IsInterior(x, y, w, h)
      [] u[1] = "edge" -> y = u[3] /\ IsEdge(x, y, w, h)
      [] u[1] = "warp" -> y = u[3]
      [] u[1] = "tile" -> InTile(x, y, u[2], u[3], p.pixelSize, w, h)

\* What the iteration u stores at (x, y), reading from `data`.
Written(data, u, x, y, p) ==
    CASE u[1] = "conv" -> EmbossPixel(data, x, y, p.strengthX10)
      [] u[1] = "edge" -> data.px[Index(x, y, data.w)]
      [] u[1] = "warp" -> GlassPixel(data, x, y, p)
      [] u[1] = "tile" -> TileMean(data, u[2], u[3], p.pixelSize)

\* Loops that read the buffer they write.
OriginalDataInPlace(work) == [work.image EXCEPT !.px = work.out]

\* originalData = tempCtx.getImageData(...): the loops read the copy of the
\* image taken before they start; outputData is another buffer.
OriginalData(work) == work.image

InitWork ==
    /\ originalImage = NoImage
    /\ canvas = BlankCanvas
    /\ effect = "none"
    /\ params = NoParams
    /\ input = NoImage
    /\ algo = "none"
    /\ console = "none"
    /\ status = "idle"
    /\ probe \in {[stage |-> "work", kind |-> item.kind, image |-> item.image,
                    params |-> item.params,
                    out |-> Cleared(item.image.w, item.image.h).px,
                    done |-> {}] : item \in WorkItems}
    /\ ui = NoUi

\* One iteration of an outer loop that has not run yet, whichever.
ProcessUnit ==
    /\ probe.stage = "work"
    /\ \E u \in WorkUnits(probe.kind, probe.image, probe.params) \ probe.done :
          probe' = [probe EXCEPT
                      !.out = [i \in DOMAIN @ |->
                                 IF Writes(u, XOf(i, probe.image.w), YOf(i, probe.image.w),
                                           probe.image.w, probe.image.h, probe.params)
                                 THEN Written(OriginalData(probe), u,
                                              XOf(i, probe.image.w), YOf(i, probe.image.w),
                                              probe.params)
                                 ELSE @[i]],
                      !.done = @ \cup {u}]
    /\ UNCHANGED <<engineVars, ui>>

SpecWork == InitWork /\ [][ProcessUnit]_vars

-----------------------------------------------------------------------------
(* Vintage alone: uniform opaque and translucent images and a mixed one *)

VintageImages ==
    {MkImage(w, h, t[1], t[2], t[3]) :
        w \in 1..MaxW, h \in 1..MaxH, t \in {<<0, 0, 1>>, <<0, 0, 3>>, <<1, 1, 0>>}}

VintageLimitParams == [sepia : {0, 100}, grain : {0, 50}, vignette : {0, 1, 40, 101}]

VintageDraws == { << <<0, 1>> >>, << <<7, 8>>, <<1, 4>> >> }

ApplyVintageAtLimits ==
    \E p \in VintageLimitParams : \E rnd \in VintageDraws : ApplyEffect("vintage", p, rnd)

SpecVintage == InitWith(VintageImages) /\ [][ApplyVintageAtLimits]_vars

-----------------------------------------------------------------------------
(* The component around the engine: the React state, the debounce timer,  *)
(* the resize handler and the processing image of applyEffect             *)

\* The number of selections, parameter changes and window resizes of a run.
MaxUiEvents == 3

\* How far one step of the clock moves it, in ms.
TickMs == 50

\* `}, 100)` of the setTimeout of debouncedApplyEffect
DebounceDelay == 100

\* `}, 100)` of the setTimeout of handleResize
ResizeDelay == 100

\* The effects the user chooses among and the values their sliders are moved to.
UiEffects == {"pixelate", "posterize"}

UiParams ==
    [e \in UiEffects |->
        IF e = "pixelate" THEN {[pixelSize |-> 1], [pixelSize |-> 10]}
        ELSE {[levelsX2 |-> 4], [levelsX2 |-> 8]}]

\* The images the user loads.
UiImages == {MkImage(2, 2, 1, 1, 0), MkImage(1, 2, 1, 1, 0)}

\* error: null
NoError == "null"

\* No call so far.
NoCall == [effect |-> "none", params |-> NoParams]

\* A clearTimeout that cancels nothing.
ClearTimeoutSkipped(timers, id) == timers

\* clearTimeout(id): a timer that has fired or was cancelled is no longer
\* among the pending ones and the call does nothing.
ClearTimeout(timers, id) == {t \in timers : t.id # id}

\* setTimeout(() => ..., delay): a new pending timer; its callback has
\* captured `eff` and `p`.
SetTimeout(timers, id, kind, delay, eff, p) ==
    timers \cup {[id |-> id, kind |-> kind, left |-> delay, effect |-> eff, params |-> p]}

\* The pending timers of debouncedApplyEffect.
DebounceTimers == {t \in ui.timers : t.kind = "debounce"}

\* The timer whose callback runs next: its delay has elapsed, and of the
\* timers whose delay has elapsed it is the one that was set first.
Due(timers) ==
    {t \in timers : t.left = 0 /\ \A o \in timers : o.left = 0 => t.id <= o.id}

\* debouncedApplyEffect(image, effect, params); u is the component before
\* the call.  calls, lastCall, applies and burst record the history of the
\* calls: a call made while less than DebounceDelay has passed since the
\* previous one continues its burst.
DebouncedApplyEffect(u, eff, p) ==
    [u EXCEPT
        !.timers = SetTimeout(IF u.processingTimeoutRef # 0
                              THEN ClearTimeout(u.timers, u.processingTimeoutRef)
                              ELSE u.timers,
                              u.nextTimer, "debounce", DebounceDelay, eff, p),
        !.processingTimeoutRef = u.nextTimer,
        !.nextTimer = @ + 1,
        !.isProcessing = TRUE,
        !.calls = @ + 1,
        !.lastCall = [effect |-> eff, params |-> p],
        !.applies = 0,
        !.burst = IF \E t \in u.timers : t.kind = "debounce" /\ t.left > 0
                  THEN @ + 1 ELSE 1]

\* The effect hook that runs after a render in which originalImage,
\* selectedEffect or effectParams changed.
UseEffect(u, image) ==
    IF image # NoImage
    THEN DebouncedApplyEffect(u, u.selectedEffect, u.effectParams[u.selectedEffect])
    ELSE u

\* The component as useState and useRef create it.
InitUi ==
    /\ originalImage = NoImage
    /\ canvas = BlankCanvas
    /\ effect = "none"
    /\ params = NoParams
    /\ input = NoImage
    /\ algo = "none"
    /\ console = "none"
    /\ status = "idle"
    /\ probe = NoProbe
    /\ ui = [selectedEffect |-> "pixelate",
             effectParams |-> [e \in UiEffects |-> DefaultParams[e]],
             isProcessing |-> FALSE,
             processingTimeoutRef |-> 0,
             timers |-> {},
             nextTimer |-> 1,
             loads |-> <<>>,
             events |-> 0,
             calls |-> 0,
             lastCall |-> NoCall,
             applies |-> 0,
             lastApplied |-> NoCall,
             burst |-> 0,
             isLoading |-> FALSE,
             error |-> NoError,
             imageUrl |-> "",
             requests |-> {},
             nextRequest |-> 1,
             loadCalls |-> 0,
             lastUrl |-> "",
             latestLoaded |-> FALSE]

\* img.onload of loadImage, then the effect hook
ImageOnload ==
    \E img \in UiImages :
        /\ originalImage = NoImage
        /\ originalImage' = img
        /\ ui' = UseEffect(ui, img)
        /\ UNCHANGED <<canvas, effect, params, input, algo, console, status, probe>>

\* onEffectChange={setSelectedEffect}, then the effect hook; selecting the
\* effect that is selected already renders nothing anew.
SetSelectedEffect ==
    \E e \in UiEffects :
        /\ ui.events < MaxUiEvents
        /\ e # ui.selectedEffect
        /\ ui' = UseEffect([ui EXCEPT !.selectedEffect = e, !.events = @ + 1],
                           originalImage)
        /\ UNCHANGED <<engineVars, probe>>

\* updateEffectParams(effect, newParams) from a control of the selected
\* effect, then the effect hook; the new effectParams object is a change even
\* where it holds the values it held.
UpdateEffectParams ==
    \E p \in UiParams[ui.selectedEffect] :
        /\ ui.events < MaxUiEvents
        /\ ui' = UseEffect([ui EXCEPT !.effectParams[ui.selectedEffect] = p,
                                      !.events = @ + 1],
                           originalImage)
        /\ UNCHANGED <<engineVars, probe>>

\* handleResize: the listener registered by the latest render sets a timer
\* whose callback holds that render's selectedEffect and effectParams.
HandleResize ==
    /\ ui.events < MaxUiEvents
    /\ originalImage # NoImage
    /\ ui' = [ui EXCEPT
                !.timers = SetTimeout(@, ui.nextTimer, "resize", ResizeDelay,
                                      ui.selectedEffect,
                                      ui.effectParams[ui.selectedEffect]),
                !.nextTimer = @ + 1,
                !.events = @ + 1]
    /\ UNCHANGED <<engineVars, probe>>

\* The callback of handleResize's timer
ResizeTimeout ==
    \E t \in Due(ui.timers) :
        /\ t.kind = "resize"
        /\ ui' = DebouncedApplyEffect([ui EXCEPT !.timers = @ \ {t}],
                                      t.effect, t.params)
        /\ UNCHANGED <<engineVars, probe>>

\* The callback of debouncedApplyEffect's timer: applyEffect(image, effect,
\* params) up to `processImage.src = dataURL`, then isProcessing: false.  The
\* canvas is resized, cleared and shows the image itself until the processing
\* image has loaded.  The images of UiImages have a width and a height.
DebounceTimeout ==
    \E t \in Due(ui.timers) :
        /\ t.kind = "debounce"
        /\ effect' = t.effect
        /\ params' = t.params
        /\ input' = originalImage
        /\ algo' = "none"
        /\ console' = "none"
        /\ status' = "loading"
        /\ canvas' = [w |-> originalImage.w, h |-> originalImage.h,
                      px |-> DrawImage(ClearRect(canvas, originalImage.w, originalImage.h),
                                       originalImage)]
        /\ ui' = [ui EXCEPT
                    !.timers = @ \ {t},
                    !.isProcessing = FALSE,
                    !.loads = Append(@, [effect |-> t.effect, params |-> t.params]),
                    !.applies = @ + 1,
                    !.lastApplied = [effect |-> t.effect, params |-> t.params]]
        /\ UNCHANGED <<originalImage, probe>>

\* processImage.onload of one of the calls of applyEffect whose processing
\* image has not loaded yet: it clears the canvas and dispatches the effect
\* and the params of its own call.  Each call loads an image of its own and
\* nothing orders the loads.
ProcessImageOnload ==
    \E k \in 1..Len(ui.loads) :
        \E res \in {ProcessEffectWithOptimizedImage(
                        ClearRect(canvas, originalImage.w, originalImage.h),
                        originalImage, ui.loads[k].effect, ui.loads[k].params,
                        NoRandom)} :
            /\ effect' = ui.loads[k].effect
            /\ params' = ui.loads[k].params
            /\ input' = originalImage
            /\ algo' = res.algo
            /\ console' = "none"
            /\ status' = "done"
            /\ canvas' = [w |-> originalImage.w, h |-> originalImage.h, px |-> res.out]
            /\ ui' = [ui EXCEPT
                        !.loads = [j \in 1..(Len(@) - 1) |->
                                      IF j < k THEN @[j] ELSE @[j + 1]]]
            /\ UNCHANGED <<originalImage, probe>>

\* TickMs pass while no timer is due.
Tick ==
    /\ ui.timers # {}
    /\ \A t \in ui.timers : t.left > 0
    /\ ui' = [ui EXCEPT
                !.timers = {[t EXCEPT !.left = Max(0, @ - TickMs)] : t \in @}]
    /\ UNCHANGED <<engineVars, probe>>

NextUi ==
    \/ ImageOnload
    \/ SetSelectedEffect
    \/ UpdateEffectParams
    \/ HandleResize
    \/ ResizeTimeout
    \/ DebounceTimeout
    \/ ProcessImageOnload
    \/ Tick

SpecUi == InitUi /\ [][NextUi]_vars

-----------------------------------------------------------------------------
(* Loading an image from a URL: loadImage and the callbacks of its image   *)
(* elements                                                                *)

\* The number of calls of loadImage in a run.
MaxLoads == 3

\* URLs that `new URL(url)` parses, and the image each one serves.
UrlImage ==
    [u \in {"https://a.example/1.png", "https://b.example/2.png"} |->
        IF u = "https://a.example/1.png" THEN MkImage(2, 2, 1, 1, 0)
        ELSE MkImage(1, 2, 1, 0, 2)]

\* What the user submits: nothing, blanks, text that is no URL, and URLs.
Urls == {"", "   ", "not a url"} \cup DOMAIN UrlImage

\* validateUrl(url): new URL(url) does not throw
ValidateUrl(url) == url \in DOMAIN UrlImage

\* !url.trim()
IsBlank(url) == url \in {"", "   "}

\* A failure of the second attempt that reports nothing.
NoCorsFailedSilently(u, r) == [u EXCEPT !.requests = @ \ {r}]

\* imgNoCORS.onerror: setImageState({...prev, isLoading: false, error: ...})
NoCorsFailed(u, r) ==
    [u EXCEPT !.requests = @ \ {r},
              !.isLoading = FALSE,
              !.error = "Failed to load image"]

\* setImageState({...prev, originalImage: img, isLoading: false, error: null})
\* of img.onload and of imgNoCORS.onload, then the effect hook on the new
\* originalImage; latestLoaded records that r is the latest request.
Loaded(u, r) ==
    UseEffect([u EXCEPT !.requests = @ \ {r},
                        !.isLoading = FALSE,
                        !.error = NoError,
                        !.latestLoaded = @ \/ r.id = u.nextRequest - 1],
              UrlImage[r.url])

\* A rejection that also ends the loading state.
RejectedAndStopped(u, message, url) ==
    [u EXCEPT !.error = message, !.isLoading = FALSE,
              !.loadCalls = @ + 1, !.lastUrl = url]

\* setImageState(prev => ({ ...prev, error: message })); return
Rejected(u, message, url) ==
    [u EXCEPT !.error = message, !.loadCalls = @ + 1, !.lastUrl = url]

\* loadImage(url)
loadImage ==
    \E url \in Urls :
        /\ ui.loadCalls < MaxLoads
        /\ ui' = IF IsBlank(url)
                 THEN Rejected(ui, "Please enter a valid image URL", url)
                 ELSE IF ~ValidateUrl(url)
                 THEN Rejected(ui, "Invalid URL format", url)
                 ELSE [ui EXCEPT !.isLoading = TRUE,
                                 !.error = NoError,
                                 !.imageUrl = url,
                                 !.requests = @ \cup {[id |-> ui.nextRequest, url |-> url,
                                                       cors |-> TRUE, attempts |-> 1]},
                                 !.nextRequest = @ + 1,
                                 !.latestLoaded = FALSE,
                                 !.loadCalls = @ + 1, !.lastUrl = url]
        /\ UNCHANGED <<engineVars, probe>>

\* img.onload
ImgOnload ==
    \E r \in ui.requests :
        /\ r.cors
        /\ originalImage' = UrlImage[r.url]
        /\ ui' = Loaded(ui, r)
        /\ UNCHANGED <<canvas, effect, params, input, algo, console, status, probe>>

\* img.onerror: loadWithoutCORS() requests the URL with a second image
\* element that has no crossOrigin attribute
ImgOnerror ==
    \E r \in ui.requests :
        /\ r.cors
        /\ ui' = [ui EXCEPT !.requests = (@ \ {r}) \cup
                              {[r EXCEPT !.cors = FALSE, !.attempts = @ + 1]}]
        /\ UNCHANGED <<engineVars, probe>>

\* imgNoCORS.onload
ImgNoCORSOnload ==
    \E r \in ui.requests :
        /\ ~r.cors
        /\ originalImage' = UrlImage[r.url]
        /\ ui' = Loaded(ui, r)
        /\ UNCHANGED <<canvas, effect, params, input, algo, console, status, probe>>

\* imgNoCORS.onerror
ImgNoCORSOnerror ==
    \E r \in ui.requests :
        /\ ~r.cors
        /\ ui' = NoCorsFailed(ui, r)
        /\ UNCHANGED <<engineVars, probe>>

NextLoad ==
    \/ loadImage
    \/ ImgOnload
    \/ ImgOnerror
    \/ ImgNoCORSOnload
    \/ ImgNoCORSOnerror

SpecLoad == InitUi /\ [][NextLoad]_vars

\* The browser fires load or error for every image element.
SpecLoadFair ==
    /\ SpecLoad
    /\ WF_vars(ImgOnload \/ ImgOnerror)
    /\ WF_vars(ImgNoCORSOnload \/ ImgNoCORSOnerror)

(***************************************************************************)
(* The records of effectParams: updateEffectParams and setSelectedEffect   *)
(* over all eight effects, before an image is loaded.                      *)
(***************************************************************************)

\* The number of selections and updates in a run.
MaxUpdates == 3

\* Partial<EffectParams> objects the controls and other callers pass.
Partials ==
    [e \in EffectKinds |->
        CASE e = "pixelate"  -> {[pixelSize |-> 1], [pixelSize |-> 10]}
          [] e = "halftone"  -> {[dotRadius |-> 1], [angle |-> 90],
                                 [colorMode |-> TRUE],
                                 [shapeType |-> "diamond", dotRadius |-> 20]}
          [] e = "blur"      -> {[radius |-> 20]}
          [] e = "noise"     -> {[amount |-> 100]}
          [] e = "posterize" -> {[levelsX2 |-> 4]}
          [] e = "glass-refraction"
                             -> {[intensity |-> 100],
                                 [amplitude |-> 1, direction |-> 90]}
          [] e = "emboss"    -> {[strengthX10 |-> 30]}
          [] e = "vintage"   -> {[sepia |-> 0], [grain |-> 50],
                                 [vignette |-> 100, sepia |-> 100]}]

\* A spread that keeps nothing of the previous record.
SpreadReplacing(record, newParams) == newParams

\* { ...prev[effect], ...newParams }
Spread(record, newParams) ==
    [f \in DOMAIN record \cup DOMAIN newParams |->
        IF f \in DOMAIN newParams THEN newParams[f] ELSE record[f]]

\* useState of selectedEffect and effectParams; lastEffect, lastParams and
\* lastSet record the latest call of updateEffectParams and, field by
\* field, the value each effect was given last.
InitParams ==
    /\ originalImage = NoImage
    /\ canvas = BlankCanvas
    /\ effect = "none"
    /\ params = NoParams
    /\ input = NoImage
    /\ algo = "none"
    /\ console = "none"
    /\ status = "idle"
    /\ probe = NoProbe
    /\ ui = [selectedEffect |-> "pixelate",
             effectParams |-> [e \in EffectKinds |-> DefaultParams[e]],
             updates |-> 0,
             lastEffect |-> "none",
             lastParams |-> NoParams,
             lastSet |-> [e \in EffectKinds |-> DefaultParams[e]]]

\* setSelectedEffect(effect), then the effect hook
SelectEffect ==
    \E e \in EffectKinds :
        /\ ui.updates < MaxUpdates
        /\ e # ui.selectedEffect
        /\ ui' = UseEffect([ui EXCEPT !.selectedEffect = e,
                                      !.updates = @ + 1,
                                      !.lastEffect = "none",
                                      !.lastParams = NoParams],
                           originalImage)
        /\ UNCHANGED <<engineVars, probe>>

\* updateEffectParams(effect, newParams), then the effect hook
updateEffectParams ==
    \E e \in EffectKinds : \E newParams \in Partials[e] :
        /\ ui.updates < MaxUpdates
        /\ ui' = UseEffect(
                    [ui EXCEPT
                       !.effectParams =
                           [k \in DOMAIN @ |->
                               IF k = e THEN Spread(@[e], newParams) ELSE @[k]],
                       !.updates = @ + 1,
                       !.lastEffect = e,
                       !.lastParams = newParams,
                       !.lastSet[e] =
                           [f \in DOMAIN @ |->
                               IF f \in DOMAIN newParams THEN newParams[f] ELSE @[f]]],
                    originalImage)
        /\ UNCHANGED <<engineVars, probe>>

NextParams == SelectEffect \/ updateEffectParams

SpecParams == InitParams /\ [][NextParams]_vars

-----------------------------------------------------------------------------
(* Properties of the engine *)

\* applyEffect was called on an image with pixels, so the dispatch ran.
Dispatched == status = "done" /\ ~InvalidDimensions(input)

C2_OutOfRangeRejected ==
    (/\ status \in {"done", "hang"}
     /\ effect \in EffectKinds
     /\ ~InvalidDimensions(input)
     /\ ~ParamsInRange(effect, params)) =>
        /\ console = "ParameterOutOfRange"
        /\ algo = "none"
        /\ status = "done"

\* C3: a call on an image whose width or height is 0 reports
\* InvalidDimensions, whatever the effect; no algorithm runs and the canvas
\* keeps what it showed before the call.
C3_ZeroDimensionsRejected ==
    [][(status' # "idle" /\ (originalImage.w = 0 \/ originalImage.h = 0)) =>
          /\ console' = "InvalidDimensions"
          /\ algo' = "none"
          /\ status' = "done"
          /\ canvas' = canvas]_vars

C3_RejectedOverEarlierOutput ==
    /\ status = "done"
    /\ originalImage.w = 2 /\ originalImage.h = 0
    /\ input = originalImage
    /\ effect = "vintage"
    /\ console = "InvalidDimensions"
    /\ algo = "none"
    /\ canvas.w = 2 /\ canvas.h = 2
    /\ canvas.px # Cleared(2, 2).px

-----------------------------------------------------------------------------
(* Properties of Pixelate *)

\* Pixelate ran to its end on an image with pixels.
Pixelated == Dispatched /\ effect = "pixelate" /\ params.pixelSize >= 1

\* The pixels whose column and row fall in the same pixelSize x pixelSize
\* cell of the grid anchored at (0,0) as those of pixel i.
CellOf(i, w, h, pixelSize) ==
    {j \in 1..(w * h) :
        /\ XOf(j, w) \div pixelSize = XOf(i, w) \div pixelSize
        /\ YOf(j, w) \div pixelSize = YOf(i, w) \div pixelSize}

RECURSIVE SumOver(_, _, _)
\* The sum of channel c of the pixels numbered in S.
SumOver(S, px, c) ==
    IF S = {} THEN 0
    ELSE LET j == CHOOSE k \in S : TRUE
         IN  px[j][c] + SumOver(S \ {j}, px, c)

\* The tiles whose loops visit pixel i.
TilesAt(i, w, h, pixelSize) ==
    {t \in TileStarts(w, pixelSize) \X TileStarts(h, pixelSize) :
        InTile(XOf(i, w), YOf(i, w), t[1], t[2], pixelSize, w, h)}

C7_PixelSizeOneIsIdentity ==
    (Pixelated /\ params.pixelSize = 1) => canvas = input

C7_IdentityOnMixedImage ==
    /\ Pixelated
    /\ params.pixelSize = 1
    /\ input.w = 3 /\ input.h = 2
    /\ input.px[1] # input.px[2]
    /\ canvas.px = input.px

-----------------------------------------------------------------------------
(* Properties of Posterize *)

\* round(255 * i / (levels - 1)) for i in [0, levels)
Anchors(levels) == {Round(255 * i, levels - 1) : i \in 0..(levels - 1)}

\* The anchor nearest to v and, of two as near, the lower one.
NearestAnchor(levels, v) ==
    CHOOSE a \in Anchors(levels) :
        \A b \in Anchors(levels) :
            \/ Abs(v - a) < Abs(v - b)
            \/ Abs(v - a) = Abs(v - b) /\ a <= b

\* quantize was given a whole number of levels in [2,16].
LevelsInRange == probe.levelsX2 % 2 = 0 /\ probe.levelsX2 \div 2 \in 2..16

\* C8: for levels in [2,16] and x in [0,255], quantize(quantize(x)) equals
\* quantize(x), and quantize(x) is one of the anchors
\* round(255 * i / (levels - 1)), i in [0, levels).
C8_QuantizeIdempotentOnAnchors ==
    (probe.stage = "twice" /\ LevelsInRange) =>
        /\ probe.q2 = probe.q1
        /\ probe.q1 \in Anchors(probe.levelsX2 \div 2)

C8_QuantizedTwice ==
    /\ probe.stage = "twice"
    /\ probe.levelsX2 = 6
    /\ probe.value = 100
    /\ probe.q1 = 128
    /\ probe.q2 = 128

\* C9: Posterize maps every R, G, B sample to the anchor at the least
\* absolute distance and, of two anchors as near, to the lower one: 64 goes
\* to 0 for levels = 3; 128 goes to 255 for levels = 2, so the 4 x 4 buffer of
\* (128,128,128,255) becomes (255,255,255,255) in every pixel.
C9_NearestAnchorLowerOnTie ==
    /\ (probe.stage \in {"once", "twice"} /\ LevelsInRange) =>
          /\ probe.q1 = NearestAnchor(probe.levelsX2 \div 2, probe.value)
          /\ (probe.levelsX2 = 6 /\ probe.value = 64) => probe.q1 = 0
          /\ (probe.levelsX2 = 4 /\ probe.value = 128) => probe.q1 = 255
    /\ (Dispatched /\ effect = "posterize" /\ params.levelsX2 % 2 = 0
           /\ params.levelsX2 \div 2 \in 2..16) =>
          /\ \A i \in DOMAIN input.px :
                /\ \A c \in 1..3 :
                      canvas.px[i][c] = NearestAnchor(params.levelsX2 \div 2, input.px[i][c])
                /\ canvas.px[i][A] = input.px[i][A]
          /\ (params.levelsX2 = 4 /\ input = MkImage(4, 4, 0, 0, 1)) =>
                canvas.px = [i \in 1..16 |-> <<255, 255, 255, 255>>]

C9_MidGreyPosterized ==
    /\ Dispatched
    /\ effect = "posterize"
    /\ params.levelsX2 = 4
    /\ input.w = 4 /\ input.h = 4
    /\ \A i \in 1..16 : input.px[i] = <<128, 128, 128, 255>>
    /\ \A i \in 1..16 : canvas.px[i] = <<255, 255, 255, 255>>

\* C10: levels is floored and then raised to 2 before the anchors are built,
\* so the divisor levels - 1 is never 0.  A value below 2 gives the anchors
\* 0 and 255 and the output of levels = 2, and a fractional value gives the
\* anchors and the output of its floor.
C10_LevelsFlooredAndClamped ==
    /\ (probe.stage \in {"built", "once", "twice"}) =>
          /\ probe.levels - 1 > 0
          /\ probe.levels = Len(probe.quantLevels)
          /\ probe.levelsX2 < 4 => probe.quantLevels = <<0, 255>>
          /\ probe.levelsX2 >= 4 =>
                /\ probe.levels = probe.levelsX2 \div 2
                /\ \A i \in 1..probe.levels :
                      probe.quantLevels[i] = Round(255 * (i - 1), probe.levelsX2 \div 2 - 1)
    /\ (probe.stage \in {"once", "twice"} /\ probe.levelsX2 < 4) =>
          probe.q1 = IF probe.value >= 128 THEN 255 ELSE 0
    /\ (Dispatched /\ effect = "posterize" /\ params.levelsX2 < 4) =>
          canvas.px = ApplyPosterizeEffect(input, [levelsX2 |-> 4])
    /\ (Dispatched /\ effect = "posterize" /\ params.levelsX2 > 4
           /\ params.levelsX2 % 2 = 1) =>
          canvas.px = ApplyPosterizeEffect(input, [levelsX2 |-> params.levelsX2 - 1])

C10_FractionalLevelsFloored ==
    /\ probe.stage = "once"
    /\ probe.levelsX2 = 7
    /\ probe.levels = 3
    /\ probe.quantLevels = <<0, 128, 255>>
    /\ probe.value = 100
    /\ probe.q1 = 128

-----------------------------------------------------------------------------
(* Properties of Noise *)

\* C11: Noise with amount = 0 gives back every byte of the input; with
\* amount = A > 0, whatever the draw, every output R, G, B byte is within A
\* of its input byte; the alpha of every pixel is the input alpha.
C11_NoiseWithinAmount ==
    /\ probe.stage = "noised" =>
          /\ Abs(probe.out - probe.value) <= probe.amount
          /\ probe.amount = 0 => probe.out = probe.value
    /\ (Dispatched /\ effect = "noise" /\ params.amount \in 0..100) =>
          /\ DOMAIN canvas.px = DOMAIN input.px
          /\ \A i \in DOMAIN input.px :
                /\ canvas.px[i][A] = input.px[i][A]
                /\ \A c \in 1..3 :
                      Abs(canvas.px[i][c] - input.px[i][c]) <= params.amount
          /\ params.amount = 0 => canvas.px = input.px

C11_NoiseAtFullAmount ==
    /\ probe.stage = "noised"
    /\ probe.amount = 25
    /\ probe.rn[1] = 0
    /\ probe.value = 100
    /\ probe.out = 75

-----------------------------------------------------------------------------
(* Properties of Emboss *)

\* C12: Emboss gives back all four bytes of every pixel with x = 0,
\* x = W - 1, y = 0 or y = H - 1; every interior R, G, B byte of the output
\* is in 0..255 for every strength in [0.1, 3.0]; the alpha of every pixel is
\* the input alpha at the same place.
C12_EmbossBorderAndAlphaKept ==
    (Dispatched /\ effect = "emboss" /\ params.strengthX10 \in 1..30) =>
        /\ DOMAIN canvas.px = DOMAIN input.px
        /\ \A i \in DOMAIN input.px :
              /\ (\/ XOf(i, input.w) = 0 \/ XOf(i, input.w) = input.w - 1
                  \/ YOf(i, input.w) = 0 \/ YOf(i, input.w) = input.h - 1) =>
                    canvas.px[i] = input.px[i]
              /\ \A c \in 1..3 : canvas.px[i][c] \in 0..255
              /\ canvas.px[i][A] = input.px[i][A]

C12_InteriorEmbossed ==
    /\ Dispatched
    /\ effect = "emboss"
    /\ params.strengthX10 = 30
    /\ input.w = 4 /\ input.h = 4
    /\ \E i \in {6, 7, 10, 11} :
          /\ canvas.px[i] # input.px[i]
          /\ input.px[i][A] = 128
          /\ canvas.px[i][A] = 128
    /\ \E i \in {6, 7, 10, 11} : \E c \in 1..3 : canvas.px[i][c] \in {0, 255}
    /\ canvas.px[4] = input.px[4] /\ canvas.px[13] = input.px[13]

-----------------------------------------------------------------------------
(* Properties of GlassRefraction *)

GlassDone == Dispatched /\ effect = "glass-refraction"

\* C13: GlassRefraction with intensity = 0 gives back every byte of the
\* input at the same place, whatever frequency, amplitude and direction.
C13_ZeroIntensityIsIdentity ==
    (GlassDone /\ params.intensity = 0) => canvas = input

C13_IdentityAtFullAmplitude ==
    /\ GlassDone
    /\ params.intensity = 0
    /\ params.amplitude = 50 /\ params.frequency = 20 /\ params.direction = 200
    /\ input.w = 3 /\ input.h = 3
    /\ input.px[1] # input.px[2]
    /\ canvas.px = input.px

\* C14, as the code has it: with amplitude = 0 nothing is displaced and no
\* channel is re-sampled, but the brightness variation still applies: up to
\* intensity 50 (no softening pass) every output R, G, B byte is within
\* 0.1 * (intensity / 100) * v + 0.5 of the input byte v at the same place,
\* and alpha is the input alpha.
C14_ZeroAmplitudeStillBrightens ==
    (GlassDone /\ params.amplitude = 0 /\ params.intensity \in 0..50) =>
        \A i \in DOMAIN input.px :
            /\ canvas.px[i][A] = input.px[i][A]
            /\ \A c \in 1..3 :
                  1000 * Abs(canvas.px[i][c] - input.px[i][c])
                      <= input.px[i][c] * params.intensity + 500

C14_BrightenedWithoutShift ==
    /\ GlassDone
    /\ params.amplitude = 0
    /\ params.intensity = 50
    /\ input.w = 3 /\ input.h = 3
    /\ \E i \in DOMAIN input.px : \E c \in 1..3 :
          Abs(canvas.px[i][c] - input.px[i][c]) >= 5

\* C14, as stated: with amplitude = 0, for every intensity in [0,100], every
\* output R, G, B byte is within 1 of the input byte at the same place.
C14_ZeroAmplitudeWithinOne ==
    (GlassDone /\ params.amplitude = 0 /\ params.intensity \in 0..100) =>
        \A i \in DOMAIN input.px :
            \A c \in 1..3 : Abs(canvas.px[i][c] - input.px[i][c]) <= 1

-----------------------------------------------------------------------------
(* Properties of Vintage *)

VintageDone == Dispatched /\ effect = "vintage"

\* C15, as stated: for every pixel, those with alpha below 255 included, and
\* every sepia, grain and vignette in range, the output alpha of Vintage is
\* the input alpha.
C15_VintageKeepsAlpha ==
    (VintageDone /\ ParamsInRange("vintage", params)) =>
        \A i \in DOMAIN input.px : canvas.px[i][A] = input.px[i][A]

\* Four times the square of the distance from the centre of pixel i to the
\* centre (w / 2, h / 2) of the image.
CentreDistance(i, w, h) ==
    (2 * XOf(i, w) + 1 - w) * (2 * XOf(i, w) + 1 - w)
        + (2 * YOf(i, w) + 1 - h) * (2 * YOf(i, w) + 1 - h)

\* C16, as the code has it: the vignette leaves the pixel whose centre is the
\* centre of the image as the sepia-and-grain loop stored it, whatever the
\* vignette value; of two pixels of the same colour the one farther from the
\* centre is never the brighter one in any of R, G, B; and no byte of an
\* opaque pixel loses more than vignette / 100 of its value (plus rounding).
C16_VignetteSparesCentreAndNeverBrightens ==
    (VintageDone /\ params.grain = 0) =>
        /\ \A i \in DOMAIN input.px :
              /\ CentreDistance(i, input.w, input.h) = 0 =>
                    canvas.px[i] = SepiaPixel(input.px[i], params, <<0, 1>>)
              /\ input.px[i][A] = 255 =>
                    \A c \in 1..3 :
                        /\ canvas.px[i][c] <= SepiaPixel(input.px[i], params, <<0, 1>>)[c]
                        /\ 100 * (SepiaPixel(input.px[i], params, <<0, 1>>)[c] - canvas.px[i][c])
                              <= SepiaPixel(input.px[i], params, <<0, 1>>)[c]
                                    * Min(100, params.vignette) + 50
        /\ \A i, j \in DOMAIN input.px :
              (/\ input.px[i] = input.px[j]
               /\ CentreDistance(i, input.w, input.h) < CentreDistance(j, input.w, input.h)) =>
                    \A c \in 1..3 : canvas.px[j][c] <= canvas.px[i][c]

C16_CornersDarkerThanCentre ==
    /\ VintageDone
    /\ params.grain = 0 /\ params.sepia = 0 /\ params.vignette = 40
    /\ input.w = 3 /\ input.h = 3
    /\ \A i \in 1..9 : input.px[i] = <<128, 128, 128, 255>>
    /\ canvas.px[5] = input.px[5]
    /\ canvas.px[1][R] < canvas.px[2][R]
    /\ canvas.px[2][R] < canvas.px[5][R]

\* C16, as stated: for vignette > 0 the darkening of a pixel strictly
\* increases with its distance from the centre of the image.
C16_DarkeningStrictlyIncreases ==
    (VintageDone /\ params.grain = 0 /\ params.vignette > 0) =>
        \A i, j \in DOMAIN input.px :
            (/\ input.px[i] = input.px[j]
             /\ CentreDistance(i, input.w, input.h) < CentreDistance(j, input.w, input.h)) =>
                  \A c \in 1..3 : input.px[i][c] > 0 => canvas.px[j][c] < canvas.px[i][c]

-----------------------------------------------------------------------------
(* Determinism *)

\* The effects that draw no random number.
DeterministicKinds == {"pixelate", "halftone", "posterize", "glass-refraction", "emboss"}

-----------------------------------------------------------------------------
(* Termination *)

\* C18, as the specification states it: every call returns, whatever the
\* image and whatever parameter record reaches the algorithm; no call is
\* left inside the tile loops of Pixelate or the lattice loops of Halftone.
\* The code defends neither pixelSize < 1 nor dotRadius < 1: with a step of
\* zero the loop variable never advances.
C18_EveryCallTerminates ==
    status # "hang"

-----------------------------------------------------------------------------
(* Properties of the component *)

\* Nothing is pending: no timer, no processing image, and an effect was shown.
Quiescent ==
    /\ originalImage # NoImage
    /\ ui.timers = {}
    /\ ui.loads = <<>>
    /\ status = "done"

\* C19, as the specification states it: once every pending timer and every
\* pending load of a processing image has run, the canvas shows the selected
\* effect applied with its current parameters.
C19_CanvasShowsLatestSelection ==
    Quiescent =>
        canvas.px = ProcessEffectWithOptimizedImage(
                        Cleared(originalImage.w, originalImage.h), originalImage,
                        ui.selectedEffect, ui.effectParams[ui.selectedEffect],
                        NoRandom).out

\* C20: at most one timer of debouncedApplyEffect is pending; a call of
\* debouncedApplyEffect leaves none of the timers that were pending before
\* it; while the timer of the last call is pending applyEffect has not been
\* invoked since that call, and once it is no longer pending applyEffect has
\* been invoked exactly once since, with the arguments of that call.
C20_LastCallOfBurstAppliedOnce ==
    /\ [](Cardinality(DebounceTimers) <= 1)
    /\ [][ui'.calls # ui.calls =>
            \A t \in DebounceTimers : \A o \in ui'.timers : o.id # t.id]_vars
    /\ []((DebounceTimers # {}) => ui.applies = 0)
    /\ []((DebounceTimers = {} /\ ui.calls > 0) =>
            (ui.applies = 1 /\ ui.lastApplied = ui.lastCall))

C20_BurstOfThreeAppliedOnce ==
    /\ ui.burst >= 3
    /\ DebounceTimers = {}
    /\ ui.applies = 1
    /\ ui.lastApplied = ui.lastCall
    /\ ui.lastCall = [effect |-> "posterize", params |-> [levelsX2 |-> 4]]

-----------------------------------------------------------------------------
(* Properties of the samples of GlassRefraction *)

\* The clamped source column and row of the output pixel (x, y) of the last call.
ClampedXAt(x, y) == Clamp(0, input.w - 1, SourceX(input, x, y, params))

ClampedYAt(x, y) == Clamp(0, input.h - 1, SourceY(input, x, y, params))

ExpectedGlassPixel(x, y) ==
    LET off == Floor(params.amplitude * params.intensity, 200)
        shifted == params.intensity > 30 /\ off > 0
        wave == CombinedWave(x, y, input.w, input.h, params.frequency)
        src == input.px[Index(ClampedXAt(x, y), ClampedYAt(x, y), input.w)]
        red == input.px[Index(Clamp(0, input.w - 1, ClampedXAt(x, y) + off),
                              ClampedYAt(x, y), input.w)]
        blue == input.px[Index(Clamp(0, input.w - 1, ClampedXAt(x, y) - off),
                               ClampedYAt(x, y), input.w)]
    IN  << Brighten(IF shifted THEN red[R] ELSE src[R], wave, params),
           Brighten(src[G], wave, params),
           Brighten(IF shifted THEN blue[B] ELSE src[B], wave, params),
           src[A] >>

\* C22: GlassRefraction takes red and blue from the shifted columns exactly
\* when intensityFactor > 0.3 and floor(ampFactor * 0.5) > 0; green and alpha
\* always come from the source sample.  Stated on the canvas of the calls
\* whose intensity does not start the softening pass (intensity <= 50).
C22_AberrationExactlyAboveThresholds ==
    (GlassDone /\ params.intensity <= 50) =>
        \A x \in 0..(input.w - 1) : \A y \in 0..(input.h - 1) :
            canvas.px[Index(x, y, input.w)] = ExpectedGlassPixel(x, y)

C22_RedFromNeighbourColumn ==
    /\ GlassDone
    /\ params.intensity = 50
    /\ Floor(params.amplitude * params.intensity, 200) = 1
    /\ \E x \in 0..(input.w - 1) : \E y \in 0..(input.h - 1) :
          /\ ClampedXAt(x, y) + 1 <= input.w - 1
          /\ ClampedXAt(x, y) - 1 >= 0
          /\ canvas.px[Index(x, y, input.w)][R] # canvas.px[Index(x, y, input.w)][G]
          /\ canvas.px[Index(x, y, input.w)][B] # canvas.px[Index(x, y, input.w)][G]

-----------------------------------------------------------------------------
(* Properties of Halftone *)

\* darkness * 765 of the sample the dot test was given
ProbeDarkness == IF probe.colorMode THEN probe.sum ELSE 765 - probe.sum

\* size * 7650 as the specification gives it: darkness * dotRadius, then
\* max(size * 1.2, darkness > 0.1 ? 0.3 : 0) for r <= 2 and
\* max(size, darkness > 0.1 ? 0.4 : 0) for 2 < r <= 3
ProbeSize ==
    LET base == 10 * ProbeDarkness * probe.dotRadius
        dark == 10 * ProbeDarkness > 765
    IN  IF probe.dotRadius <= 2 THEN Max((12 * base) \div 10, IF dark THEN 2295 ELSE 0)
        ELSE IF probe.dotRadius <= 3 THEN Max(base, IF dark THEN 3060 ELSE 0)
        ELSE base

HalftoneDone == Dispatched /\ effect = "halftone"

AllWhite(px) == \A i \in DOMAIN px : px[i] = <<255, 255, 255, 255>>

\* C23: a dot is drawn exactly when its size exceeds 0.1 (dotRadius <= 2) or
\* 0.3 (otherwise); a sample of darkness 0 gives no dot at any radius in
\* 1..20, so an all-white image without colour mode and an all-black image
\* in colour mode leave the canvas white; for dotRadius <= 3 every sample of
\* darkness above 0.1 gives a dot; and the lattice coordinates on each axis
\* are S/2, S/2 + S, ... below the size of the image, each sampling a pixel
\* of the image.
C23_DotExactlyAboveThreshold ==
    /\ probe.stage = "dot" =>
          /\ probe.drawn <=>
                (ProbeSize > (IF probe.dotRadius <= 2 THEN 765 ELSE 2295))
          /\ ProbeDarkness = 0 => ~probe.drawn
          /\ (probe.dotRadius <= 3 /\ 10 * ProbeDarkness > 765) => probe.drawn
    /\ HalftoneDone =>
          /\ \A n \in {input.w, input.h} :
                /\ LatticeCoords(n, params.dotRadius) =
                      {c \in 0..(20 * n - 1) :
                          /\ c >= Spacing(params.dotRadius)
                          /\ (c - Spacing(params.dotRadius))
                                 % (2 * Spacing(params.dotRadius)) = 0}
                /\ \A c \in LatticeCoords(n, params.dotRadius) :
                      SampleCoord(c, n) \in 0..(n - 1)
          /\ (~params.colorMode /\ AllWhite(input.px)) => AllWhite(canvas.px)
          /\ (params.colorMode /\ \A i \in DOMAIN input.px : input.px[i] = <<0, 0, 0, 255>>)
                => AllWhite(canvas.px)

C23_FaintSampleDrawnAtRadiusThree ==
    /\ probe.stage = "dot"
    /\ probe.dotRadius = 3
    /\ ~probe.colorMode
    /\ probe.sum = 688
    /\ probe.drawn

-----------------------------------------------------------------------------
(* Independence of the rows and tiles *)

\* The buffer the sequential pass of the call leaves.
SequentialPass ==
    CASE probe.kind = "emboss" -> ApplyEmbossEffect(probe.image, probe.params)
      [] probe.kind = "glass-refraction" ->
            ApplyGlassRefractionEffect(probe.image, probe.params)
      [] probe.kind = "pixelate" -> ApplyPixelateEffect(probe.image, probe.params)

\* C24: whatever rows (Emboss, GlassRefraction) or tiles (Pixelate) have
\* been computed so far and in whatever order, every pixel one of them
\* stores holds the value the sequential pass gives it and every other
\* pixel is still untouched; so when all of them are done the buffer is the
\* one of the sequential pass.
C24_RowsAndTilesInAnyOrder ==
    probe.stage = "work" =>
        \E seq \in {SequentialPass} :
            \A i \in DOMAIN probe.out :
                probe.out[i] =
                    IF \E u \in probe.done :
                          Writes(u, XOf(i, probe.image.w), YOf(i, probe.image.w),
                                 probe.image.w, probe.image.h, probe.params)
                    THEN seq[i]
                    ELSE <<0, 0, 0, 0>>

C24_LastRowsBeforeFirst ==
    /\ probe.stage = "work"
    /\ probe.kind = "emboss"
    /\ probe.params.strengthX10 = 30
    /\ probe.done = {<<"edge", 0, 3>>, <<"conv", 0, 2>>}
    /\ probe.out[Index(1, 2, 4)] # probe.image.px[Index(1, 2, 4)]
    /\ probe.out[Index(1, 1, 4)] = <<0, 0, 0, 0>>

-----------------------------------------------------------------------------
(* The canvas while the Download button is enabled *)

\* C25, as stated: whenever an image is loaded and isProcessing is false,
\* the canvas shows the effect of the last call of applyEffect applied with
\* the params of that call, not the image drawn as a placeholder.
C25_CanvasFinishedWhenNotProcessing ==
    (originalImage # NoImage /\ ~ui.isProcessing) =>
        canvas.px = ProcessEffectWithOptimizedImage(
                        Cleared(originalImage.w, originalImage.h), originalImage,
                        ui.lastApplied.effect, ui.lastApplied.params, NoRandom).out

-----------------------------------------------------------------------------
(* Properties of loadImage *)

\* C26, as stated: while the latest request is pending isLoading stays true,
\* and once no callback is pending and the latest request has loaded,
\* originalImage is the image of imageUrl.
C26_LatestRequestWins ==
    /\ (\E r \in ui.requests : r.id = ui.nextRequest - 1) => ui.isLoading
    /\ (ui.requests = {} /\ ui.latestLoaded) => originalImage = UrlImage[ui.imageUrl]

\* C27: a failed cross-origin attempt is followed by exactly one attempt
\* without the crossOrigin attribute; when that one fails too, error is set,
\* isLoading is false, originalImage is the one it was and no attempt is
\* started; when an attempt succeeds originalImage is its image, error is
\* null and isLoading is false; and isLoading does not stay true.
C27_LoadingEnds ==
    /\ [](\A r \in ui.requests : r.attempts <= 2 /\ (r.attempts = 2 <=> ~r.cors))
    /\ [][ImgOnerror =>
            /\ Cardinality(ui'.requests) = Cardinality(ui.requests)
            /\ \A r \in ui'.requests \ ui.requests : ~r.cors /\ r.attempts = 2
            /\ Cardinality(ui'.requests \ ui.requests) = 1]_vars
    /\ [][ImgNoCORSOnerror =>
            /\ ui'.error # NoError
            /\ ~ui'.isLoading
            /\ originalImage' = originalImage
            /\ ui'.requests \subseteq ui.requests
            /\ ui'.requests # ui.requests]_vars
    /\ [][(ImgOnload \/ ImgNoCORSOnload) =>
            /\ \E r \in ui.requests \ ui'.requests : originalImage' = UrlImage[r.url]
            /\ ui'.error = NoError
            /\ ~ui'.isLoading]_vars
    /\ (ui.isLoading ~> ~ui.isLoading)

C27_RetryFailedAndImageKept ==
    /\ ui.error = "Failed to load image"
    /\ ~ui.isLoading
    /\ ui.requests = {}
    /\ ui.imageUrl = "https://b.example/2.png"
    /\ originalImage = UrlImage["https://a.example/1.png"]

\* C28: a call of loadImage with an empty or blank URL or with text that
\* does not parse as a URL sets error and leaves originalImage, isLoading,
\* imageUrl and the pending requests as they were; debouncedApplyEffect is
\* not called and no timer is set.
C28_BadUrlOnlySetsError ==
    [][(ui'.loadCalls # ui.loadCalls /\ ui'.lastUrl \in {"", "   ", "not a url"}) =>
          /\ ui'.error # NoError
          /\ originalImage' = originalImage
          /\ ui'.isLoading = ui.isLoading
          /\ ui'.imageUrl = ui.imageUrl
          /\ ui'.requests = ui.requests
          /\ ui'.calls = ui.calls
          /\ ui'.timers = ui.timers]_vars

C28_RejectedWhileLoading ==
    /\ ui.lastUrl = "not a url"
    /\ ui.error = "Invalid URL format"
    /\ ui.isLoading
    /\ ui.requests # {}
    /\ originalImage # NoImage

\* C29: a step changes a field of an effect's record only when it is a call
\* of updateEffectParams for that effect that supplies the field, and then
\* the field holds the supplied value; the record keeps its fields; a change
\* of selectedEffect changes no record; so every record holds, field by
\* field, the values last set for it.
C29_OnlySuppliedFieldsChange ==
    /\ [](ui.effectParams = ui.lastSet)
    /\ [][\A e \in EffectKinds :
            /\ DOMAIN ui'.effectParams[e] = DOMAIN ui.effectParams[e]
            /\ \A f \in DOMAIN ui.effectParams[e] :
                  \/ ui'.effectParams[e][f] = ui.effectParams[e][f]
                  \/ /\ ui'.lastEffect = e
                     /\ f \in DOMAIN ui'.lastParams
                     /\ ui'.effectParams[e][f] = ui'.lastParams[f]]_vars
    /\ [][ui'.selectedEffect # ui.selectedEffect =>
            ui'.effectParams = ui.effectParams]_vars

C29_TwoEffectsUpdatedThenAnotherSelected ==
    /\ ui.selectedEffect = "blur"
    /\ ui.effectParams["halftone"] =
           [shapeType |-> "diamond", dotRadius |-> 20, angle |-> 45, colorMode |-> FALSE]
    /\ ui.effectParams["vintage"] = [sepia |-> 30, grain |-> 50, vignette |-> 40]
    /\ ui.effectParams["pixelate"] = [pixelSize |-> 10]

\* C30: on an image less than 3 pixels wide or less than 3 pixels high the
\* convolution loops of Emboss visit no pixel and the output has the pixels
\* of the input, byte for byte, whatever the strength; the output has the
\* size of the input.
C30_EmbossWithoutInteriorIsIdentity ==
    (Dispatched /\ effect = "emboss" /\ (input.w < 3 \/ input.h < 3)) =>
        /\ {i \in DOMAIN input.px :
               /\ 1 <= XOf(i, input.w) /\ XOf(i, input.w) < input.w - 1
               /\ 1 <= YOf(i, input.w) /\ YOf(i, input.w) < input.h - 1} = {}
        /\ DOMAIN canvas.px = 1..(input.w * input.h)
        /\ canvas.w = input.w /\ canvas.h = input.h
        /\ canvas.px = input.px

C30_TwoColumnsKeptAtFullStrength ==
    /\ Dispatched
    /\ effect = "emboss"
    /\ params.strengthX10 = 30
    /\ input.w = 2 /\ input.h = 4
    /\ \E i, j \in DOMAIN input.px : input.px[i] # input.px[j]
    /\ \E i \in DOMAIN input.px : input.px[i][R] \notin {0, 128}
    /\ canvas.px = input.px

=============================================================================
